---------------------------- MODULE Spec2Model ----------------------------
(***************************************************************************)
(* Model of the architecture fitness-function runner                       *)
(* (architecture/fitness_functions): the orchestrator of main.py, the      *)
(* line-oriented scanners of FF-003 / FF-006 and the brace                 *)
(* extractors of FF-001 / FF-002 / FF-004 / FF-005 / FF-007 / FF-008 /     *)
(* FF-010 / FF-017, the file-tree walks of FF-001 / FF-003 / FF-006 /      *)
(* FF-013 / FF-016, the repeated runs of FF-014 / FF-020 and single verify *)
(* functions of FF-004 / FF-010 / FF-013 / FF-014 / FF-015 / FF-019.       *)
(*                                                                         *)
(* Six specifications share the module.  Each drives one component and     *)
(* keeps the variables of the other components at their idle values:       *)
(*   Spec     - module loading, run_fitness_functions, print_summary, exit *)
(*   SpecScan - scan_file_for_violations of FF-003 and FF-006              *)
(*   SpecExt  - extract_function_body / parse_game_events / parse_c_struct *)
(*   SpecTree - the verify functions that walk src/ and include/           *)
(*   SpecDet  - a rule run several times, in one process or in several     *)
(*   SpecVer  - one verify function called on one input                    *)
(***************************************************************************)
EXTENDS Integers, Sequences, FiniteSets, TLC

VARIABLES
    \* ---- orchestrator (main.py) ----
    pc,               \* "idle" | "running" | "summary" | "exiting" | "exited" | "aborted"
    loaded,           \* number of rule modules main.py has loaded so far
    load_failed,      \* number of the rule whose module raised while loading, 0 if none
    idx,              \* position in the declared rule order of the next try-block
    results,          \* the list run_fitness_functions appends to
    crashed,          \* rules whose except-branch ran ("FF-0xx crashed" was printed)
    invoked,          \* sequence of rule numbers whose verify function was called
    findings,         \* rule number -> severities of the findings the rule printed
    overall_success,  \* value returned by print_summary
    exit_status,      \* argument of sys.exit
    \* ---- line scanners (FF-003, FF-006) ----
    s_pc,             \* "off" | "scan" | "done"
    scanner,          \* which scanner runs
    lines,            \* the file, a sequence of lines; a line is a sequence of tokens
    line_num,         \* 1-indexed number of the next line / match to examine
    prev_line,        \* FF-003's running prev_line
    violations,       \* line numbers appended to the violations / callsites list
    \* ---- brace extractors ----
    e_pc,             \* "off" | "search" | "scan" | "done" | "reported"
    extractor,        \* which extractor runs
    content,          \* the text, a sequence of tokens
    func_start,       \* 0-based index just after the header match (match.end())
    pos,              \* 0-based scan index
    brace_count,
    body_start,       \* FF-002: 0-based line of the opening brace, -1 for None
    e_result,         \* [kind, body, start_line], kind "none" | "body" | "raised" |
                      \* "IndexError" | "failure"
    win_branches,     \* FF-002: line numbers find_payout_branches returned
    fields,           \* FF-004: the StructField list of parse_c_struct
    not_found,        \* FF-010 / FF-011: the caller printed "... not found"
    \* ---- repeated runs (FF-014, FF-020) ----
    d_pc,             \* "off" | "ready"
    d_rule,           \* which rule is run again and again
    d_corpus,         \* the files, unchanged between the runs
    ff20_violations,  \* FF-020's module-level list "violations" of this process
    hash_order,       \* iteration order of a set of str in this process
    reports,          \* what each run so far printed and returned
    \* ---- file-tree walks (FF-001, FF-003, FF-006, FF-013, FF-016) ----
    t_pc,             \* "off" | "parse" | "walk" | "done"
    t_rule,           \* which verify function runs
    tree,             \* the files of the project in the order rglob yields them
    enum_body,        \* FF-001: the lines between the braces of the GameEvent_t enum
    defined_events,   \* FF-001: the set parse_game_events returned
    t_idx,            \* position in all_files of the next file of the loop
    all_violations,   \* the list the loop extends, as [file, line] records
    triggered_events, \* FF-001: keys of the dict find_triggered_events fills
    warnings,         \* files a "WARNING: Could not read" line was printed for
    orphaned,         \* FF-001: the events printed as NEVER TRIGGERED
    printed,          \* the violations printed, in the order printed
    t_ret,            \* "none" | "pass" | "fail" | "raised"
    \* ---- one verify function on one input ----
    v_pc,             \* "off" | "call" | "done"
    v_rule,           \* which function is called
    v_input,          \* the text it is given, as a record
    v_result          \* what it returned, as a record

runVars  == <<pc, loaded, load_failed, idx, results, crashed, invoked, findings,
              overall_success, exit_status>>
scanVars == <<s_pc, scanner, lines, line_num, prev_line, violations>>
extVars  == <<e_pc, extractor, content, func_start, pos, brace_count, body_start, e_result,
              win_branches, fields, not_found>>
detVars  == <<d_pc, d_rule, d_corpus, ff20_violations, hash_order, reports>>
treeVars == <<t_pc, t_rule, tree, enum_body, defined_events, t_idx, all_violations, triggered_events,
              warnings, orphaned, printed, t_ret>>
verVars  == <<v_pc, v_rule, v_input, v_result>>
vars     == <<runVars, scanVars, extVars, detVars, treeVars, verVars>>

(***************************************************************************)
(* Bounds                                                                  *)
(***************************************************************************)
MaxNonClean == 2     \* at most this many rules of one run do not pass cleanly
MaxLines    == 3     \* lines per scanned file
MaxText     == 5     \* tokens per extracted text
MaxStruct   == 6     \* tokens per header text (struct and enum definitions)

(***************************************************************************)
(* Python helpers                                                          *)
(***************************************************************************)
\* s[a:b] for 0 <= a, 0-based, half-open, clipped like a Python slice
Slice(s, a, b) ==
    LET hi == IF b > Len(s) THEN Len(s) ELSE b
    IN  IF a >= hi THEN <<>> ELSE SubSeq(s, a + 1, hi)

\* number of elements of s equal to c  (str.count of one character)
RECURSIVE Count(_, _)
Count(s, c) ==
    IF s = <<>> THEN 0
    ELSE (IF Head(s) = c THEN 1 ELSE 0) + Count(Tail(s), c)

\* sequences over S of length 0..n
SeqsUpTo(S, n) == UNION { [1..k -> S] : k \in 0..n }

(***************************************************************************)
(* Orchestrator: main.py                                                   *)
(***************************************************************************)
\* The try-blocks of run_fitness_functions in declared order: the rule's
\* number and the name it is recorded under.
Rules ==
    << [ff |-> 1,  name |-> "FF-001: Event Coverage Verification"],
       [ff |-> 2,  name |-> "FF-002: Status Effect Modifier Coverage"],
       [ff |-> 3,  name |-> "FF-003: Constitutional Pattern Enforcement"],
       [ff |-> 4,  name |-> "FF-004: Card Metadata Separation"],
       [ff |-> 5,  name |-> "FF-005: Event Choices as Value Types"],
       [ff |-> 6,  name |-> "FF-006: d_ArrayInit Parameter Order Verification"],
       [ff |-> 7,  name |-> "FF-007: Texture Cleanup Verification"],
       [ff |-> 8,  name |-> "FF-008: Modal Design Consistency"],
       [ff |-> 9,  name |-> "FF-009: Tag System Architecture"],
       [ff |-> 10, name |-> "FF-010: Combat Damage Formula"],
       [ff |-> 11, name |-> "FF-011: Targeting Hover State"],
       [ff |-> 12, name |-> "FF-012: Reward Modal Animation"],
       [ff |-> 13, name |-> "FF-013: Universal Damage Modifiers"],
       [ff |-> 14, name |-> "FF-014: Reverse-Order Cleanup"],
       [ff |-> 15, name |-> "FF-015: Double-Pointer Destructor"],
       [ff |-> 16, name |-> "FF-016: Trinket Value Semantics"],
       [ff |-> 17, name |-> "FF-017: Terminal Architecture"] >>

\* The fitness-function scripts present in the directory: 01_*.py .. 20_*.py
Scripts == 1..20

\* What one call of a verify function does: it returns a value after
\* printing findings of the given severities, or it raises.
Returned(ret, sev) == [raised |-> FALSE, ret |-> ret, sev |-> sev]
Raised             == [raised |-> TRUE,  ret |-> FALSE, sev |-> {}]

Events == {"GAME_EVENT_A", "GAME_EVENT_B"}

\* FF-001 verify_event_coverage: parse_game_events raises ValueError when the
\* enum is not found; otherwise orphaned = defined - triggered decides.
FF001Inputs ==
    [enum_found : BOOLEAN, defined : SUBSET Events, triggered : SUBSET Events]

\* orphaned = defined_events - triggered_events.keys()
orphaned_events(defined, triggered) == defined \ triggered

verify_event_coverage(in) ==
    IF ~in.enum_found THEN Raised
    ELSE IF orphaned_events(in.defined, in.triggered) # {} THEN Returned(FALSE, {"Fail"})
    ELSE Returned(TRUE, {})

\* FF-002 verify_status_effect_modifier_coverage
FF002Inputs ==
    [game_c_exists : BOOLEAN, found : BOOLEAN,
     win_branches : 0..1, loss_branches : 0..1,
     win_has_modifier : BOOLEAN, loss_has_modifier : BOOLEAN]

verify_status_effect_modifier_coverage(in) ==
    IF ~in.game_c_exists THEN Returned(FALSE, {"Fail"})
    ELSE IF ~in.found THEN Returned(FALSE, {"Fail"})
    ELSE IF in.win_branches = 0 /\ in.loss_branches = 0
         THEN Returned(FALSE, {"Warn"})      \* "WARNING: No payout branches found"
    ELSE LET failures ==
                 (IF in.win_branches > 0 /\ ~in.win_has_modifier THEN 1 ELSE 0)
               + (IF in.loss_branches > 0 /\ ~in.loss_has_modifier THEN 1 ELSE 0)
         IN  IF failures > 0 THEN Returned(FALSE, {"Fail"})
             ELSE Returned(TRUE, {})

\* FF-007 verify_texture_cleanup
FF007Inputs ==
    [texture_tables : 0..1, main_c_exists : BOOLEAN, cleanup_found : BOOLEAN,
     brace_found : BOOLEAN, balanced : BOOLEAN, missing_cleanup : 0..1]

verify_texture_cleanup(in) ==
    IF in.texture_tables = 0
         THEN Returned(FALSE, {"Warn"})      \* "WARNING: No texture tables found"
    ELSE IF ~in.main_c_exists  THEN Returned(FALSE, {"Fail"})
    ELSE IF ~in.cleanup_found  THEN Returned(FALSE, {"Fail"})
    ELSE IF ~in.brace_found    THEN Returned(FALSE, {"Fail"})
    ELSE IF ~in.balanced       THEN Returned(FALSE, {"Fail"})
    ELSE IF in.missing_cleanup = 0 THEN Returned(TRUE, {})
    ELSE Returned(FALSE, {"Fail"})

\* FF-008 verify_modal_consistency: the checks append both cross-marked
\* findings (font scale, full height, auto size) and warning-marked ones
\* (sidebar anchor, colour scheme) to the same violations list.
FF008Inputs ==
    [modal_files : 0..1, fail_violations : 0..1, warn_violations : 0..1]

verify_modal_consistency(in) ==
    IF in.modal_files = 0
         THEN Returned(FALSE, {"Warn"})      \* "WARNING: No modal files found"
    ELSE LET total_violations == in.fail_violations + in.warn_violations
             sev == (IF in.fail_violations > 0 THEN {"Fail"} ELSE {})
                    \cup (IF in.warn_violations > 0 THEN {"Warn"} ELSE {})
         IN  IF total_violations = 0 THEN Returned(TRUE, {})
             ELSE Returned(FALSE, sev)

\* The remaining rules: a verify function returns True (possibly after
\* printing warnings, e.g. an unreadable file), returns False after printing
\* its failures, or raises.
GenericOutcomes ==
    { Returned(TRUE, {}), Returned(TRUE, {"Warn"}), Returned(FALSE, {"Fail"}), Raised }

\* Every outcome one call of rule ff can have
Outcomes(ff) ==
    CASE ff = 1 -> { verify_event_coverage(in) : in \in FF001Inputs } \cup {Raised}
      [] ff = 2 -> { verify_status_effect_modifier_coverage(in) : in \in FF002Inputs }
                   \cup {Raised}
      [] ff = 7 -> { verify_texture_cleanup(in) : in \in FF007Inputs } \cup {Raised}
      [] ff = 8 -> { verify_modal_consistency(in) : in \in FF008Inputs } \cup {Raised}
      [] OTHER  -> GenericOutcomes

Clean(o) == ~o.raised /\ o.ret /\ o.sev = {}

\* rules of this run so far that did not pass cleanly
NonClean ==
    { i \in 1..Len(results) :
        ~results[i].success \/ findings[Rules[i].ff] # {} }

\* variant: the verdict only asks for some rule to have passed
print_summary_some(res) ==
    LET passed == Cardinality({ i \in 1..Len(res) : res[i].success })
    IN  passed > 0

\* print_summary: passed = number of truthy entries, failed = len - passed
print_summary(res) ==
    LET passed == Cardinality({ i \in 1..Len(res) : res[i].success })
        failed == Len(res) - passed
    IN  failed = 0

RunInit ==
    /\ pc = "idle"
    /\ loaded = 0
    /\ load_failed = 0
    /\ idx = 1
    /\ results = <<>>
    /\ crashed = {}
    /\ invoked = <<>>
    /\ findings = [ff \in Scripts |-> {}]
    /\ overall_success = FALSE
    /\ exit_status = -1

\* module level of main.py: specN.loader.exec_module(ffN) for the next rule
LoadModule ==
    /\ pc = "idle"
    /\ loaded < Len(Rules)
    /\ loaded' = loaded + 1
    /\ UNCHANGED <<pc, load_failed, idx, results, crashed, invoked, findings,
                   overall_success, exit_status>>

\* exec_module raises (syntax error, failing import, missing file): the
\* statement stands in no try block, the interpreter prints the traceback
\* and exits with status 1
LoadRaises ==
    /\ pc = "idle"
    /\ loaded < Len(Rules)
    /\ load_failed' = Rules[loaded + 1].ff
    /\ pc' = "aborted"
    /\ exit_status' = 1
    /\ UNCHANGED <<loaded, idx, results, crashed, invoked, findings, overall_success>>

\* results = []
Start ==
    /\ pc = "idle"
    /\ loaded = Len(Rules)
    /\ pc' = "running"
    /\ results' = <<>>
    /\ UNCHANGED <<idx, crashed, invoked, findings, overall_success, exit_status>>

\* variant: a rule that returned False is run again before moving on
RuleReturns_retry ==
    /\ pc = "running"
    /\ idx <= Len(Rules)
    /\ \E o \in Outcomes(Rules[idx].ff) :
          /\ ~o.raised
          /\ Clean(o) \/ Cardinality(NonClean) < MaxNonClean
          /\ results' = Append(results, [name |-> Rules[idx].name, success |-> o.ret])
          /\ findings' = [findings EXCEPT ![Rules[idx].ff] = o.sev]
          /\ invoked' = IF o.ret THEN Append(invoked, Rules[idx].ff)
                        ELSE invoked \o <<Rules[idx].ff, Rules[idx].ff>>
    /\ idx' = idx + 1
    /\ UNCHANGED <<pc, crashed, overall_success, exit_status>>

\* try: success = verify(project_root); results.append((name, success))
RuleReturns ==
    /\ pc = "running"
    /\ idx <= Len(Rules)
    /\ \E o \in Outcomes(Rules[idx].ff) :
          /\ ~o.raised
          /\ Clean(o) \/ Cardinality(NonClean) < MaxNonClean
          /\ results' = Append(results, [name |-> Rules[idx].name, success |-> o.ret])
          /\ findings' = [findings EXCEPT ![Rules[idx].ff] = o.sev]
    /\ invoked' = Append(invoked, Rules[idx].ff)
    /\ idx' = idx + 1
    /\ UNCHANGED <<pc, crashed, overall_success, exit_status>>

\* variant: the except-branch records the crash and ends the run
RuleCrashes_abort ==
    /\ pc = "running"
    /\ idx <= Len(Rules)
    /\ Raised \in Outcomes(Rules[idx].ff)
    /\ Cardinality(NonClean) < MaxNonClean
    /\ results' = Append(results, [name |-> Rules[idx].name, success |-> FALSE])
    /\ crashed' = crashed \cup {Rules[idx].ff}
    /\ invoked' = Append(invoked, Rules[idx].ff)
    /\ idx' = Len(Rules) + 1
    /\ UNCHANGED <<pc, findings, overall_success, exit_status>>

\* except Exception: print("FF-0xx crashed"); results.append((name, False))
RuleCrashes ==
    /\ pc = "running"
    /\ idx <= Len(Rules)
    /\ Raised \in Outcomes(Rules[idx].ff)
    /\ Cardinality(NonClean) < MaxNonClean
    /\ results' = Append(results, [name |-> Rules[idx].name, success |-> FALSE])
    /\ crashed' = crashed \cup {Rules[idx].ff}
    /\ invoked' = Append(invoked, Rules[idx].ff)
    /\ idx' = idx + 1
    /\ UNCHANGED <<pc, findings, overall_success, exit_status>>

\* return results
ReturnResults ==
    /\ pc = "running"
    /\ idx = Len(Rules) + 1
    /\ pc' = "summary"
    /\ UNCHANGED <<idx, results, crashed, invoked, findings, overall_success, exit_status>>

\* overall_success = print_summary(results)
PrintSummary ==
    /\ pc = "summary"
    /\ overall_success' = print_summary(results)
    /\ pc' = "exiting"
    /\ UNCHANGED <<idx, results, crashed, invoked, findings, exit_status>>

\* sys.exit(0 if overall_success else 1)
SysExit ==
    /\ pc = "exiting"
    /\ exit_status' = IF overall_success THEN 0 ELSE 1
    /\ pc' = "exited"
    /\ UNCHANGED <<idx, results, crashed, invoked, findings, overall_success>>

(***************************************************************************)
(* Line scanners: FF-003 and FF-006                                        *)
(*                                                                         *)
(* A line is a sequence of tokens; consecutive tokens of a line are        *)
(* separated by exactly one space.  "sp" is a run of blanks, "nl" the      *)
(* newline readlines() keeps at the end of a line, "PAT" a piece of text   *)
(* the scanner's forbidden pattern matches, "x" any other code.            *)
(***************************************************************************)
LineForms ==
    { <<>>,                                \* blank line
      <<"x">>,                             \* ordinary code
      <<"PAT">>,                           \* code with a forbidden allocation
      <<"sp", "//", "EXCEPTION:">>,        \* indented marker comment
      <<"/*", "FFI:", "*/">>,              \* closed block comment with the FFI marker
      <<"/*">>,                            \* opens a block comment
      <<"*/">>,                            \* closes a block comment
      <<"*", "PAT">>,                      \* "*p = malloc(...)" or a " * ..." comment line
      <<"PAT", "//", "EXCEPTION:">>,       \* flagged code with a trailing marker
      <<"x", "//", "PAT">> }               \* code with the pattern in a trailing comment

Scanners == {"FF003", "FF006"}

\* EXCEPTION_MARKERS of each scanner, as token sequences
EXCEPTION_MARKERS(sc) ==
    IF sc = "FF003"
    THEN { <<"//", "EXCEPTION:">>, <<"//", "FFI:">>,
           <<"/*", "EXCEPTION:">>, <<"/*", "FFI:">> }
    ELSE { <<"//", "EXCEPTION:">>, <<"/*", "EXCEPTION:">>,
           <<"//", "DAEDALUS_WRAPPER:">> }

\* f.readlines(): every line keeps its newline
readlines(file) == [i \in 1..Len(file) |-> file[i] \o <<"nl">>]

\* content.split('\n'): the newlines are dropped
split_lines(file) == file

\* the lines as the scanner sc holds them
LinesOf(sc, file) == IF sc = "FF003" THEN readlines(file) ELSE split_lines(file)

Whitespace == {"sp", "nl"}

RECURSIVE lstrip(_)
lstrip(line) ==
    IF line # <<>> /\ Head(line) \in Whitespace THEN lstrip(Tail(line)) ELSE line

RECURSIVE rstrip(_)
rstrip(line) ==
    IF line # <<>> /\ line[Len(line)] \in Whitespace
    THEN rstrip(SubSeq(line, 1, Len(line) - 1)) ELSE line

strip(line) == rstrip(lstrip(line))

\* does the token occur on the line
InLine(line, tok) == \E k \in 1..Len(line) : line[k] = tok

\* needle in haystack, for token sequences
Contains(haystack, needle) ==
    \E k \in 0..(Len(haystack) - Len(needle)) :
        SubSeq(haystack, k + 1, k + Len(needle)) = needle

\* variant: only the line itself is searched for a marker
is_exception_allowed_same_line(sc, line, prev, next) ==
    \E marker \in EXCEPTION_MARKERS(sc) : Contains(line, marker)

\* is_exception_allowed: FF-003 joins prev_line + ' ' + line, FF-006 joins
\* prev_line + ' ' + line + ' ' + next_line (FF-003 passes no next line)
is_exception_allowed(sc, line, prev, next) ==
    LET combined == IF sc = "FF003" THEN prev \o line
                    ELSE prev \o line \o next
    IN  \E marker \in EXCEPTION_MARKERS(sc) : Contains(combined, marker)

\* is_comment_line: stripped.startswith('//') or .startswith('/*') or
\* .startswith('*'); the text of the token "*/" starts with '*' too
is_comment_line(line) ==
    LET stripped == strip(line)
    IN  stripped # <<>> /\ Head(stripped) \in {"//", "/*", "*", "*/"}

\* re.search(pattern, line) for a forbidden pattern
matches_forbidden(line) == \E k \in 1..Len(line) : line[k] = "PAT"

\* One iteration of FF-003's loop over enumerate(lines, 1)
\* st = [prev_line, violations]
FF003_iteration(st, line, n) ==
    IF is_comment_line(line)
        THEN [prev_line |-> line, violations |-> st.violations]
    ELSE IF is_exception_allowed("FF003", line, st.prev_line, <<>>)
        THEN [prev_line |-> line, violations |-> st.violations]
    ELSE [prev_line |-> line,
          violations |-> IF matches_forbidden(line)
                         THEN Append(st.violations, n) ELSE st.violations]

\* One match of FF-006's loop over WRONG_SIZEOF_FIRST.finditer(content),
\* the match starting on line n of ls
FF006_iteration(st, ls, n) ==
    LET line_text == ls[n]
        prev == IF n > 1 THEN ls[n - 1] ELSE <<>>
        next == IF n < Len(ls) THEN ls[n + 1] ELSE <<>>
    IN  IF is_exception_allowed("FF006", line_text, prev, next)
            THEN st
        ELSE IF is_comment_line(line_text)
            THEN st
        ELSE [st EXCEPT !.violations = Append(st.violations, n)]

\* scan_file_for_violations of FF-003 as a whole: the line numbers reported
RECURSIVE FF003_scan_from(_, _, _)
FF003_scan_from(ls, n, st) ==
    IF n > Len(ls) THEN st.violations
    ELSE FF003_scan_from(ls, n + 1, FF003_iteration(st, ls[n], n))

scan_file_for_violations(file) ==
    FF003_scan_from(readlines(file), 1, [prev_line |-> <<>>, violations |-> <<>>])

ScanInit ==
    /\ s_pc = "scan"
    /\ scanner \in Scanners
    /\ lines \in SeqsUpTo(LineForms, MaxLines)
    /\ line_num = 1
    /\ prev_line = <<>>
    /\ violations = <<>>

\* FF-003: one iteration of "for line_num, line in enumerate(lines, 1)"
FF003_Line ==
    /\ s_pc = "scan" /\ scanner = "FF003"
    /\ line_num <= Len(lines)
    /\ LET st == FF003_iteration([prev_line |-> prev_line, violations |-> violations],
                                 readlines(lines)[line_num], line_num)
       IN  /\ prev_line' = st.prev_line
           /\ violations' = st.violations
    /\ line_num' = line_num + 1
    /\ UNCHANGED <<s_pc, scanner, lines>>

\* FF-006: a line on which no match of the wrong-order pattern starts
FF006_NoMatch ==
    /\ s_pc = "scan" /\ scanner = "FF006"
    /\ line_num <= Len(lines)
    /\ ~matches_forbidden(split_lines(lines)[line_num])
    /\ line_num' = line_num + 1
    /\ UNCHANGED <<s_pc, scanner, lines, prev_line, violations>>

\* FF-006: one iteration of "for match in WRONG_SIZEOF_FIRST.finditer(content)"
FF006_Match ==
    /\ s_pc = "scan" /\ scanner = "FF006"
    /\ line_num <= Len(lines)
    /\ matches_forbidden(split_lines(lines)[line_num])
    /\ LET st == FF006_iteration([prev_line |-> prev_line, violations |-> violations],
                                 split_lines(lines), line_num)
       IN  violations' = st.violations
    /\ line_num' = line_num + 1
    /\ UNCHANGED <<s_pc, scanner, lines, prev_line>>

\* return violations
ScanReturn ==
    /\ s_pc = "scan"
    /\ line_num > Len(lines)
    /\ s_pc' = "done"
    /\ UNCHANGED <<scanner, lines, line_num, prev_line, violations>>

RunOff ==
    /\ pc = "off" /\ loaded = 0 /\ load_failed = 0 /\ idx = 0 /\ results = <<>> /\ crashed = {} /\ invoked = <<>>
    /\ findings = [ff \in Scripts |-> {}] /\ overall_success = FALSE
    /\ exit_status = -1

ScanOff ==
    /\ s_pc = "off" /\ scanner = "none" /\ lines = <<>> /\ line_num = 0
    /\ prev_line = <<>> /\ violations = <<>>

(***************************************************************************)
(* Brace extractors                                                        *)
(*                                                                         *)
(* The text is a sequence of tokens, 0-based like a Python string:         *)
(* content[k] of the code is content[k + 1] here.  "H" is a function       *)
(* header "name(args)", "E" the words "typedef enum", "G" the words        *)
(* "GameEvent_t;", "nl" a newline, "x" any other text, "W" a payout        *)
(* statement "WinBet(p);", "T" the words "typedef struct Card", "N" the     *)
(* words "Card_t;", "f" a field declaration "int x;".                      *)
(***************************************************************************)
Extractors == {"FF001", "FF002", "FF004", "FF005", "FF007", "FF008", "FF010"}

Alphabet(ex) ==
    IF ex = "FF001" THEN {"E", "G", "{", "}", "x"}
    ELSE IF ex = "FF002" THEN {"H", "{", "}", "W", "nl"}
    ELSE IF ex = "FF004" THEN {"T", "N", "{", "}", "f", "nl"}
    ELSE {"H", "{", "}", "x", "nl"}

TextBound(ex) == IF ex \in {"FF001", "FF004"} THEN MaxStruct ELSE MaxText

NotFound == [kind |-> "none", body |-> <<>>, start_line |-> 0]
ValueError == [kind |-> "raised", body |-> <<>>, start_line |-> 0]
IndexError == [kind |-> "IndexError", body |-> <<>>, start_line |-> 0]
Failure == [kind |-> "failure", body |-> <<>>, start_line |-> 0]
Body(b, n) == [kind |-> "body", body |-> b, start_line |-> n]

At(text, k) == text[k + 1]        \* text[k], 0-based

\* re.search(r'name\s*\([^)]*\)\s*\{', content): match.end() of the leftmost
\* match, 0 when there is none (a match ends at index 2 or later)
header_match_end(text) ==
    LET Ends == { b \in 1..Len(text) :
                    /\ text[b] = "{"
                    /\ \E a \in 1..(b - 1) :
                          /\ text[a] = "H"
                          /\ \A k \in (a + 1)..(b - 1) : text[k] = "nl" }
    IN  IF Ends = {} THEN 0
        ELSE CHOOSE b \in Ends : \A c \in Ends : b <= c

\* re.search(r'typedef enum \{([^}]+)\} GameEvent_t;', content, re.DOTALL):
\* group(1) of the leftmost match, as [found, body]
enum_match(text) ==
    LET Starts == { a \in 1..Len(text) :
                      /\ text[a] = "E"
                      /\ a + 1 <= Len(text) /\ text[a + 1] = "{"
                      /\ \E c \in (a + 3)..(Len(text) - 1) :
                            /\ text[c] = "}" /\ text[c + 1] = "G"
                            /\ \A k \in (a + 2)..(c - 1) : text[k] # "}" }
    IN  IF Starts = {} THEN [found |-> FALSE, body |-> <<>>]
        ELSE LET a == CHOOSE a0 \in Starts : \A a1 \in Starts : a0 <= a1
                 c == CHOOSE c0 \in (a + 3)..Len(text) :
                         /\ text[c0] = "}"
                         /\ \A k \in (a + 2)..(c0 - 1) : text[k] # "}"
             IN  [found |-> TRUE, body |-> SubSeq(text, a + 2, c - 1)]

\* 0-based number of the line that holds the token at 0-based index p
line_of(text, p) == Count(SubSeq(text, 1, p), "nl")

\* 0-based index of the first token of line L
line_begin(text, L) ==
    IF L = 0 THEN 0
    ELSE CHOOSE p \in 1..Len(text) :
            text[p] = "nl" /\ Count(SubSeq(text, 1, p), "nl") = L

\* 0-based index just after the last token (the newline) of line L
line_end(text, L) ==
    IF \E p \in 1..Len(text) : text[p] = "nl" /\ Count(SubSeq(text, 1, p), "nl") = L + 1
    THEN CHOOSE p \in 1..Len(text) :
            text[p] = "nl" /\ Count(SubSeq(text, 1, p), "nl") = L + 1
    ELSE Len(text)

\* FF-002: index of the first line on which func_pattern matches, -1 if none
first_header_line(text) ==
    IF \E p \in 1..Len(text) : text[p] = "H"
    THEN line_of(text, (CHOOSE p \in 1..Len(text) :
                          text[p] = "H" /\ \A q \in 1..(p - 1) : text[q] # "H") - 1)
    ELSE -1

\* variant: the closing brace is kept in the body
body_slice_keep_brace(text, start, p) == Slice(text, start, p)

\* FF-005 / FF-017: func_body = content[start:pos-1]
body_slice(text, start, p) == Slice(text, start, p - 1)

ExtInit ==
    /\ e_pc = "search"
    /\ extractor \in Extractors
    /\ content \in SeqsUpTo(Alphabet(extractor), TextBound(extractor))
    /\ func_start = 0
    /\ pos = 0
    /\ brace_count = 0
    /\ body_start = -1
    /\ e_result = NotFound
    /\ win_branches = <<>>
    /\ fields = <<>>
    /\ not_found = FALSE

\* FF-001 parse_game_events: raise ValueError when the enum is not matched
ParseGameEvents ==
    /\ e_pc = "search" /\ extractor = "FF001"
    /\ LET m == enum_match(content)
       IN  e_result' = IF ~m.found THEN ValueError ELSE Body(m.body, 0)
    /\ e_pc' = "done"
    /\ UNCHANGED <<extractor, content, func_start, pos, brace_count, body_start>>

\* FF-010 / FF-005 / FF-017: match = re.search(pattern, content)
SearchHeader ==
    /\ e_pc = "search" /\ extractor \in {"FF005", "FF010"}
    /\ LET m == header_match_end(content)
       IN  IF m = 0
           THEN /\ e_result' = NotFound
                /\ e_pc' = "done"
                /\ UNCHANGED <<func_start, pos, brace_count>>
           ELSE /\ func_start' = m
                /\ pos' = m
                /\ brace_count' = 1
                /\ e_pc' = "scan"
                /\ UNCHANGED e_result
    /\ UNCHANGED <<extractor, content, body_start>>

\* FF-010: one iteration of "for i, char in enumerate(content[func_start:])";
\* the break returns content[func_start:func_end] with func_end = i
FF010_Char ==
    /\ e_pc = "scan" /\ extractor = "FF010"
    /\ pos < Len(content)
    /\ LET char == At(content, pos)
           bc == IF char = "{" THEN brace_count + 1
                 ELSE IF char = "}" THEN brace_count - 1 ELSE brace_count
       IN  /\ brace_count' = bc
           /\ IF char = "}" /\ bc = 0
              THEN /\ e_result' = Body(Slice(content, func_start, pos), 0)
                   /\ e_pc' = "done"
                   /\ pos' = pos
              ELSE /\ pos' = pos + 1
                   /\ UNCHANGED <<e_result, e_pc>>
    /\ UNCHANGED <<extractor, content, func_start, body_start>>

\* FF-010: the loop ends without a break; func_end is still func_start
FF010_Exhausted ==
    /\ e_pc = "scan" /\ extractor = "FF010"
    /\ pos >= Len(content)
    /\ e_result' = Body(Slice(content, func_start, func_start), 0)
    /\ e_pc' = "done"
    /\ UNCHANGED <<extractor, content, func_start, pos, brace_count, body_start>>

\* str.find(tok, start): 0-based index of the first tok at or after start,
\* -1 when there is none
find_from(text, tok, start) ==
    IF \A k \in (start + 1)..Len(text) : text[k] # tok THEN -1
    ELSE (CHOOSE k \in (start + 1)..Len(text) :
             text[k] = tok /\ \A q \in (start + 1)..(k - 1) : text[q] # tok) - 1

\* FF-007 verify_texture_cleanup: content.find('void Cleanup(void)') and
\* content.find('{', cleanup_start); either miss prints FAILURE and returns
FF007_Find ==
    /\ e_pc = "search" /\ extractor = "FF007"
    /\ LET cleanup_start == find_from(content, "H", 0)
           brace_start   == IF cleanup_start = -1 THEN -1
                            ELSE find_from(content, "{", cleanup_start)
       IN  IF brace_start = -1
           THEN /\ e_result' = Failure
                /\ e_pc' = "done"
                /\ UNCHANGED <<func_start, pos, brace_count>>
           ELSE /\ func_start' = cleanup_start
                /\ pos' = brace_start + 1
                /\ brace_count' = 1
                /\ e_pc' = "scan"
                /\ UNCHANGED e_result
    /\ UNCHANGED <<extractor, content, body_start>>

\* FF-007: one iteration of "while pos < len(content) and brace_count > 0"
FF007_Char ==
    /\ e_pc = "scan" /\ extractor = "FF007"
    /\ pos < Len(content) /\ brace_count > 0
    /\ LET char == At(content, pos)
       IN  brace_count' = IF char = "{" THEN brace_count + 1
                          ELSE IF char = "}" THEN brace_count - 1 ELSE brace_count
    /\ pos' = pos + 1
    /\ UNCHANGED <<e_pc, extractor, content, func_start, body_start, e_result>>

\* FF-007: after the loop, "Unbalanced braces" is a reported failure, else
\* cleanup_func = content[cleanup_start:pos]
FF007_Slice ==
    /\ e_pc = "scan" /\ extractor = "FF007"
    /\ ~(pos < Len(content) /\ brace_count > 0)
    /\ e_result' = IF brace_count # 0 THEN Failure
                   ELSE Body(Slice(content, func_start, pos), 0)
    /\ e_pc' = "done"
    /\ UNCHANGED <<extractor, content, func_start, pos, brace_count, body_start>>

\* FF-008 check_sidebar_anchor: re.search(show_func_pattern, content), the
\* pattern ending at the ")" of the header, and content.find('{', func_start)
FF008_Find ==
    /\ e_pc = "search" /\ extractor = "FF008"
    /\ LET show_match      == find_from(content, "H", 0)
           func_body_start == IF show_match = -1 THEN -1
                              ELSE find_from(content, "{", show_match + 1)
       IN  IF func_body_start = -1
           THEN /\ e_result' = NotFound
                /\ e_pc' = "done"
                /\ UNCHANGED <<func_start, pos, brace_count, body_start>>
           ELSE /\ func_start' = show_match + 1
                /\ body_start' = func_body_start
                /\ pos' = func_body_start
                /\ brace_count' = 1
                /\ e_pc' = "scan"
                /\ UNCHANGED e_result
    /\ UNCHANGED <<extractor, content>>

\* FF-008: one iteration of "while pos < len(content) and brace_count > 0":
\* "pos += 1" comes first, then content[pos] is read
FF008_Char ==
    /\ e_pc = "scan" /\ extractor = "FF008"
    /\ pos < Len(content) /\ brace_count > 0
    /\ pos' = pos + 1
    /\ pos + 1 < Len(content)
    /\ LET char == At(content, pos + 1)
       IN  brace_count' = IF char = "{" THEN brace_count + 1
                          ELSE IF char = "}" THEN brace_count - 1 ELSE brace_count
    /\ UNCHANGED <<e_pc, extractor, content, func_start, body_start, e_result>>

\* FF-008: the same iteration when pos + 1 is len(content): content[pos]
\* raises IndexError, which nothing in the script catches
FF008_IndexError ==
    /\ e_pc = "scan" /\ extractor = "FF008"
    /\ pos < Len(content) /\ brace_count > 0
    /\ pos' = pos + 1
    /\ ~(pos + 1 < Len(content))
    /\ e_result' = IndexError
    /\ e_pc' = "done"
    /\ UNCHANGED <<extractor, content, func_start, brace_count, body_start>>

\* FF-008: the loop condition fails; func_body = content[func_body_start:pos]
FF008_Slice ==
    /\ e_pc = "scan" /\ extractor = "FF008"
    /\ ~(pos < Len(content) /\ brace_count > 0)
    /\ e_result' = Body(Slice(content, body_start, pos), 0)
    /\ e_pc' = "done"
    /\ UNCHANGED <<extractor, content, func_start, pos, brace_count, body_start>>

\* FF-005 / FF-017: one iteration of
\* "while pos < len(content) and brace_count > 0"
FF005_Char ==
    /\ e_pc = "scan" /\ extractor = "FF005"
    /\ pos < Len(content) /\ brace_count > 0
    /\ LET char == At(content, pos)
       IN  brace_count' = IF char = "{" THEN brace_count + 1
                          ELSE IF char = "}" THEN brace_count - 1 ELSE brace_count
    /\ pos' = pos + 1
    /\ UNCHANGED <<e_pc, extractor, content, func_start, body_start, e_result>>

\* FF-005 / FF-017: the loop condition fails; func_body = content[start:pos-1]
FF005_Slice ==
    /\ e_pc = "scan" /\ extractor = "FF005"
    /\ ~(pos < Len(content) /\ brace_count > 0)
    /\ e_result' = Body(body_slice(content, func_start, pos), 0)
    /\ e_pc' = "done"
    /\ UNCHANGED <<extractor, content, func_start, pos, brace_count, body_start>>

\* FF-002 extract_function_body: find the first line matching func_pattern
FF002_FindLine ==
    /\ e_pc = "search" /\ extractor = "FF002"
    /\ LET L == first_header_line(content)
       IN  IF L = -1
           THEN /\ e_result' = NotFound
                /\ e_pc' = "done"
                /\ UNCHANGED <<func_start, pos>>
           ELSE /\ func_start' = L
                /\ pos' = line_begin(content, L)
                /\ e_pc' = "scan"
                /\ UNCHANGED e_result
    /\ brace_count' = 0
    /\ body_start' = -1
    /\ UNCHANGED <<extractor, content>>

\* FF-002: one character of "for i in range(func_start_line, len(lines)):
\* for char in lines[i]"
FF002_Char ==
    /\ e_pc = "scan" /\ extractor = "FF002"
    /\ pos < Len(content)
    /\ LET char == At(content, pos)
           i    == line_of(content, pos)
           bs   == IF char = "{" /\ brace_count = 0 THEN i ELSE body_start
           bc   == IF char = "{" THEN brace_count + 1
                   ELSE IF char = "}" THEN brace_count - 1 ELSE brace_count
       IN  /\ body_start' = bs
           /\ brace_count' = bc
           /\ IF char = "}" /\ bc = 0
              THEN /\ e_result' = Body(Slice(content, line_begin(content, bs),
                                             line_end(content, i)), bs + 1)
                   /\ e_pc' = "done"
                   /\ pos' = pos
              ELSE /\ pos' = pos + 1
                   /\ UNCHANGED <<e_result, e_pc>>
    /\ UNCHANGED <<extractor, content, func_start>>

\* FF-002: the lines are exhausted; return None
FF002_Exhausted ==
    /\ e_pc = "scan" /\ extractor = "FF002"
    /\ pos >= Len(content)
    /\ e_result' = NotFound
    /\ e_pc' = "done"
    /\ UNCHANGED <<extractor, content, func_start, pos, brace_count, body_start>>

\* text.split('\n'), for token sequences
RECURSIVE split_nl(_)
split_nl(text) ==
    IF \A k \in 1..Len(text) : text[k] # "nl" THEN <<text>>
    ELSE LET p == CHOOSE k \in 1..Len(text) :
                     text[k] = "nl" /\ \A q \in 1..(k - 1) : text[q] # "nl"
         IN  <<SubSeq(text, 1, p - 1)>> \o split_nl(SubSeq(text, p + 1, Len(text)))

\* variant: the number reported is the line inside the extracted body
find_payout_branches_relative(function_body, start_line) ==
    LET ls == split_nl(function_body)
        hit == { i \in 0..(Len(ls) - 1) : \E k \in 1..Len(ls[i + 1]) : ls[i + 1][k] = "W" }
        RECURSIVE from(_)
        from(i) == IF i >= Len(ls) THEN <<>>
                   ELSE (IF i \in hit THEN <<i + 1>> ELSE <<>>) \o from(i + 1)
    IN  from(0)

\* FF-002 find_payout_branches: win_branches, with actual_line = start_line + i
find_payout_branches(function_body, start_line) ==
    LET ls == split_nl(function_body)
        hit == { i \in 0..(Len(ls) - 1) : \E k \in 1..Len(ls[i + 1]) : ls[i + 1][k] = "W" }
        RECURSIVE from(_)
        from(i) == IF i >= Len(ls) THEN <<>>
                   ELSE (IF i \in hit THEN <<start_line + i>> ELSE <<>>) \o from(i + 1)
    IN  from(0)

\* FF-002: win_branches, loss_branches = find_payout_branches(function_body, start_line)
FF002_FindPayouts ==
    /\ e_pc = "done" /\ extractor = "FF002"
    /\ e_result.kind = "body"
    /\ win_branches' = find_payout_branches(e_result.body, e_result.start_line)
    /\ e_pc' = "reported"
    /\ UNCHANGED <<extractor, content, func_start, pos, brace_count, body_start,
                   e_result, fields, not_found>>

\* re.search(rf'typedef\s+struct\s+{name}\s*\{{([^}}]+)\}}\s*{name}_t\s*;',
\* content, re.DOTALL): the leftmost match as [found, start, open, close],
\* 1-based positions of "T", of the brace and of the '}' that ends group(1)
struct_match(text) ==
    LET Matches ==
          { m \in [start : 1..Len(text), open : 1..Len(text), close : 1..Len(text)] :
              /\ text[m.start] = "T"
              /\ m.start < m.open /\ text[m.open] = "{"
              /\ \A k \in (m.start + 1)..(m.open - 1) : text[k] = "nl"
              /\ m.open + 2 <= m.close /\ text[m.close] = "}"
              /\ \A k \in (m.open + 1)..(m.close - 1) : text[k] # "}"
              /\ \E n \in (m.close + 1)..Len(text) :
                    /\ text[n] = "N"
                    /\ \A k \in (m.close + 1)..(n - 1) : text[k] = "nl" }
    IN  IF Matches = {} THEN [found |-> FALSE, start |-> 0, open |-> 0, close |-> 0]
        ELSE LET m == CHOOSE m0 \in Matches : \A m1 \in Matches : m0.start <= m1.start
             IN  [found |-> TRUE, start |-> m.start, open |-> m.open, close |-> m.close]

\* re.match(r'(.+?)\s+(\w+)\s*(\[[^\]]*\])?\s*;', stripped): "int x;" matches
\* wherever it stands, "Card_t;" matches when text and a blank precede it
field_match(stripped) ==
    \E k \in 1..Len(stripped) :
        stripped[k] = "f" \/ (stripped[k] = "N" /\ k > 1)

\* line_number = struct_start_line + rel_line_num, with
\* struct_start_line = content[:match.start()].count('\n') + 1
field_line(text, m, rel_line_num) ==
    LET struct_start_line == Count(SubSeq(text, 1, m.start - 1), "nl") + 1
    IN  struct_start_line + rel_line_num

\* in_multiline_comment after "if '/*' in stripped: ... = True" and
\* "if '*/' in stripped: ... = False" have run on one line
comment_flag(in_comment, stripped) ==
    IF InLine(stripped, "*/") THEN FALSE
    ELSE IF InLine(stripped, "/*") THEN TRUE
    ELSE in_comment

\* the three "continue" statements of the loop body
line_skipped(in_comment, stripped) ==
    \/ InLine(stripped, "*/")
    \/ comment_flag(in_comment, stripped)
    \/ stripped = <<>>
    \/ stripped[1] = "//"

\* the loop "for rel_line_num, line in enumerate(body.split('\n'), 1)",
\* in_comment being in_multiline_comment at the top of the iteration
RECURSIVE parse_fields(_, _, _, _, _)
parse_fields(text, m, body_lines, rel_line_num, in_comment) ==
    IF rel_line_num > Len(body_lines) THEN <<>>
    ELSE LET stripped == strip(body_lines[rel_line_num])
         IN  (IF ~line_skipped(in_comment, stripped) /\ field_match(stripped)
              THEN << [declaration |-> stripped,
                       line_number |-> field_line(text, m, rel_line_num)] >>
              ELSE <<>>)
             \o parse_fields(text, m, body_lines, rel_line_num + 1,
                             comment_flag(in_comment, stripped))

\* parse_c_struct on a header that can be read: None, or the fields
parse_c_struct(text) ==
    LET m == struct_match(text)
    IN  IF ~m.found THEN [found |-> FALSE, fields |-> <<>>]
        ELSE [found  |-> TRUE,
              fields |-> parse_fields(text, m,
                                      split_nl(SubSeq(text, m.open + 1, m.close - 1)),
                                      1, FALSE)]

\* FF-004 parse_c_struct: None when the pattern does not match, else the
\* fields of group(1)
ParseCStruct ==
    /\ e_pc = "search" /\ extractor = "FF004"
    /\ LET m == struct_match(content)
       IN  IF ~m.found
           THEN /\ e_result' = NotFound
                /\ fields' = <<>>
           ELSE LET body == SubSeq(content, m.open + 1, m.close - 1)
                IN  /\ e_result' = Body(body, Count(SubSeq(content, 1, m.start - 1), "nl") + 1)
                    /\ fields' = parse_c_struct(content).fields
    /\ e_pc' = "done"
    /\ UNCHANGED <<extractor, content, func_start, pos, brace_count, body_start,
                   win_branches, not_found>>

\* "not func_body" of the callers: None and the empty string are both false
not_func_body(result) == result.kind = "none" \/ result.body = <<>>

\* FF-010 verify_damage_formula_pattern and FF-011 verify_uses_hover_state:
\* "if not func_body:" prints that the function was not found and returns
FF010_Caller ==
    /\ e_pc = "done" /\ extractor = "FF010"
    /\ not_found' = not_func_body(e_result)
    /\ e_pc' = "reported"
    /\ UNCHANGED <<extractor, content, func_start, pos, brace_count, body_start,
                   e_result, win_branches, fields>>

ExtOff ==
    /\ e_pc = "off" /\ extractor = "none" /\ content = <<>> /\ func_start = 0
    /\ pos = 0 /\ brace_count = 0 /\ body_start = -1 /\ e_result = NotFound
    /\ win_branches = <<>> /\ fields = <<>> /\ not_found = FALSE

(***************************************************************************)
(* Repeated runs: FF-020 main() and FF-014 verify_init_cleanup_pairing     *)
(*                                                                         *)
(* The files do not change between the runs.  What a process carries from  *)
(* one run to the next is FF-020's module-level list and the order in      *)
(* which the process iterates a set of strings (str hashes are seeded per  *)
(* process).                                                               *)
(***************************************************************************)
MaxRuns      == 2     \* runs of the rule over the same files
MaxFound     == 2     \* add_violation calls the four checks of FF-020 make
MaxCallLines == 2     \* lines of the file FF-014 reads

DetRules == {"FF014", "FF020"}

\* categories the checks of FF-020 pass to add_violation
Categories == {"FORWARD_DECL_MISMATCH", "MISSING_PROTOTYPE"}

\* two of the pairs of INIT_CLEANUP_PAIRS
INIT_CLEANUP_PAIRS ==
    << <<"CreatePlayer", "DestroyPlayer">>, <<"InitDeck", "CleanupDeck">> >>

\* set(init_funcs + cleanup_funcs)
all_func_names ==
    { INIT_CLEANUP_PAIRS[k][1] : k \in 1..Len(INIT_CLEANUP_PAIRS) }
    \cup { INIT_CLEANUP_PAIRS[k][2] : k \in 1..Len(INIT_CLEANUP_PAIRS) }

\* list(set(...)): the orders in which a process may iterate the set
Orders ==
    { o \in [1..Cardinality(all_func_names) -> all_func_names] :
        \A a, b \in DOMAIN o : a # b => o[a] # o[b] }

\* a line of the file, as the set of functions it calls (at most two)
CallLines == { c \in SUBSET all_func_names : Cardinality(c) <= 2 }

\* "for func_name in func_names: if re.search(...): calls.append(...); break"
RECURSIVE calls_on_line(_, _, _)
calls_on_line(line, n, func_names) ==
    IF func_names = <<>> THEN <<>>
    ELSE IF Head(func_names) \in line
         THEN << [line |-> n, func_name |-> Head(func_names)] >>
         ELSE calls_on_line(line, n, Tail(func_names))

\* extract_function_calls over the lines from line n on
RECURSIVE calls_from(_, _, _)
calls_from(file, func_names, n) ==
    IF n > Len(file) THEN <<>>
    ELSE calls_on_line(file[n], n, func_names) \o calls_from(file, func_names, n + 1)

extract_function_calls(file, func_names) == calls_from(file, func_names, 1)

\* verify_init_cleanup_pairing over one file: what it prints and returns
verify_init_cleanup_pairing(file, order) ==
    LET calls == extract_function_calls(file, order)
        called_funcs == { calls[k].func_name : k \in 1..Len(calls) }
        unpaired == SelectSeq(INIT_CLEANUP_PAIRS,
                              LAMBDA pair : pair[1] \in called_funcs
                                            /\ pair[2] \notin called_funcs)
    IN  [printed |-> unpaired, ret |-> (unpaired = <<>>)]

DetInit ==
    /\ d_pc = "ready"
    /\ d_rule \in DetRules
    /\ d_corpus \in IF d_rule = "FF020" THEN SeqsUpTo(Categories, MaxFound)
                    ELSE SeqsUpTo(CallLines, MaxCallLines)
    /\ ff20_violations = <<>>
    /\ hash_order \in Orders
    /\ reports = <<>>

\* FF-020 main(): the checks call add_violation, which appends to the
\* module-level list; "if not violations: return 0", else print them, return 1
FF020_main ==
    /\ d_pc = "ready" /\ d_rule = "FF020"
    /\ Len(reports) < MaxRuns
    /\ ff20_violations' = ff20_violations \o d_corpus
    /\ reports' = Append(reports, [printed |-> ff20_violations',
                                   ret |-> IF ff20_violations' = <<>> THEN 0 ELSE 1])
    /\ UNCHANGED <<d_pc, d_rule, d_corpus, hash_order>>

\* FF-014 verify_init_cleanup_pairing(project_root)
FF014_verify ==
    /\ d_pc = "ready" /\ d_rule = "FF014"
    /\ Len(reports) < MaxRuns
    /\ reports' = Append(reports, verify_init_cleanup_pairing(d_corpus, hash_order))
    /\ UNCHANGED <<d_pc, d_rule, d_corpus, ff20_violations, hash_order>>

\* the next run happens in a new interpreter: the module is loaded again
\* and str hashing is seeded again
NewProcess ==
    /\ d_pc = "ready"
    /\ reports # <<>> /\ Len(reports) < MaxRuns
    /\ ff20_violations' = <<>>
    /\ hash_order' \in Orders
    /\ UNCHANGED <<d_pc, d_rule, d_corpus, reports>>

DetOff ==
    /\ d_pc = "off" /\ d_rule = "none" /\ d_corpus = <<>>
    /\ ff20_violations = <<>> /\ hash_order = <<>> /\ reports = <<>>

(***************************************************************************)
(* File-tree walks: the verify functions of FF-001, FF-003, FF-006,        *)
(* FF-013 and FF-016                                                       *)
(*                                                                         *)
(* A file is [path, content]; its path is root/dir/<name>.ext.  The        *)
(* content says what reading and scanning the file gives: "unreadable"     *)
(* (open raises), "clean", "hit" (one line the rule flags) or, for FF-001, *)
(* the one line of the file that names Game_TriggerEvent: the event stands *)
(* for the statement "Game_TriggerEvent(game, <event>);", and the same     *)
(* after "// " for that statement commented out.                           *)
(***************************************************************************)
MaxFiles == 2     \* files in the project tree

TreeRules == {"FF001", "FF003", "FF006", "FF013", "FF016"}

Roots    == {"src", "include"}
DirNames == {"scenes", "external"}
Exts     == {"c", "h"}
Paths    == [root : Roots, dir : DirNames, ext : Exts]

\* the line "// Game_TriggerEvent(game, <e>);"
Commented(e) == IF e = "GAME_EVENT_A" THEN "// GAME_EVENT_A" ELSE "// GAME_EVENT_B"

Contents(rule) ==
    IF rule = "FF001"
    THEN Events \cup {Commented("GAME_EVENT_A"), "clean", "unreadable"}
    ELSE {"clean", "hit", "unreadable"}

\* the trees of at most MaxFiles files, in every order rglob may yield them
Trees(rule) ==
    { t \in SeqsUpTo([path : Paths, content : Contents(rule)], MaxFiles) :
        \A a, b \in 1..Len(t) : a # b => t[a].path # t[b].path }

\* SKIP_DIRECTORIES of each script; FF-001, FF-013 and FF-016 have none
SKIP_DIRECTORIES(rule) ==
    IF rule = "FF003" THEN {"external", "vendor", "third_party"}
    ELSE IF rule = "FF006" THEN {"external", "vendor", "third_party", "test"}
    ELSE {}

\* any(skip_dir in file_path.parts for skip_dir in SKIP_DIRECTORIES)
should_skip_directory(rule, path) ==
    \E skip_dir \in SKIP_DIRECTORIES(rule) : skip_dir \in {path.root, path.dir}

\* list(root.rglob("*.ext"))
rglob(t, root, ext) ==
    SelectSeq(t, LAMBDA f : f.path.root = root /\ f.path.ext = ext)

\* the list the loop of the verify function runs over
all_files(rule, t) ==
    LET c_files == rglob(t, "src", "c")
        h_files == IF rule \in {"FF003", "FF006", "FF016"}
                   THEN rglob(t, "include", "h") ELSE <<>>
    IN  IF rule \in {"FF003", "FF006"}
        THEN SelectSeq(c_files \o h_files,
                       LAMBDA f : ~should_skip_directory(rule, f.path))
        ELSE c_files \o h_files

\* what scanning one readable file appends to the violations
scan_file(f) ==
    IF f.content = "hit" THEN << [file |-> f.path, line |-> 1] >> ELSE <<>>

\* the enum bodies: a set of lines, "<e>" for the enumerator line "<e>," and
\* Commented(e) for the line "// <e>,"
EnumBodies ==
    { {"GAME_EVENT_A"},
      {"GAME_EVENT_A", "GAME_EVENT_B"},
      {"GAME_EVENT_A", Commented("GAME_EVENT_B")},
      {Commented("GAME_EVENT_A"), "GAME_EVENT_B"} }

\* re.finditer(r'(GAME_EVENT_\w+)', enum_body): every identifier of the
\* body, wherever it stands
event_pattern_finditer(body) ==
    { e \in Events : e \in body \/ Commented(e) \in body }

\* re.search(r'Game_TriggerEvent\s*\([^,]+,\s*(GAME_EVENT_\w+)\)', line)
\* over the lines of one file: the events of the lines that match
trigger_search(file_content) ==
    { e \in Events : file_content \in {e, Commented(e)} }

TreeInit ==
    /\ t_rule \in TreeRules
    /\ t_pc = IF t_rule = "FF001" THEN "parse" ELSE "walk"
    /\ tree \in Trees(t_rule)
    /\ enum_body \in IF t_rule = "FF001" THEN EnumBodies ELSE {{}}
    /\ defined_events = {}
    /\ t_idx = 1
    /\ all_violations = <<>>
    /\ triggered_events = {}
    /\ warnings = <<>>
    /\ orphaned = {}
    /\ printed = <<>>
    /\ t_ret = "none"

\* defined_events = parse_game_events(game_h_path)
TreeParseEvents ==
    /\ t_pc = "parse"
    /\ defined_events' = event_pattern_finditer(enum_body)
    /\ t_pc' = "walk"
    /\ UNCHANGED <<t_rule, tree, enum_body, t_idx, all_violations, triggered_events,
                   warnings, orphaned, printed, t_ret>>

\* one iteration of "for file_path in all_files" on a file that can be read
TreeScanFile ==
    /\ t_pc = "walk"
    /\ t_idx <= Len(all_files(t_rule, tree))
    /\ LET f == all_files(t_rule, tree)[t_idx]
       IN  /\ f.content # "unreadable"
           /\ IF t_rule = "FF001"
              THEN /\ triggered_events' = triggered_events \cup trigger_search(f.content)
                   /\ UNCHANGED all_violations
              ELSE /\ all_violations' = all_violations \o scan_file(f)
                   /\ UNCHANGED triggered_events
    /\ t_idx' = t_idx + 1
    /\ UNCHANGED <<t_pc, t_rule, tree, enum_body, defined_events, warnings, orphaned, printed, t_ret>>

\* FF-003 / FF-006: "except Exception: print(WARNING: Could not read);
\* return violations"; FF-016: "except Exception: return violations"
TreeSkipUnreadable ==
    /\ t_pc = "walk" /\ t_rule \in {"FF003", "FF006", "FF016"}
    /\ t_idx <= Len(all_files(t_rule, tree))
    /\ LET f == all_files(t_rule, tree)[t_idx]
       IN  /\ f.content = "unreadable"
           /\ warnings' = IF t_rule = "FF016" THEN warnings
                          ELSE Append(warnings, f.path)
    /\ t_idx' = t_idx + 1
    /\ UNCHANGED <<t_pc, t_rule, tree, enum_body, defined_events, all_violations, triggered_events,
                   orphaned, printed, t_ret>>

\* FF-001 "with open(c_file, 'r')" and FF-013 "file_path.read_text()" stand
\* in no try block: the exception leaves the verify function
TreeReadRaises ==
    /\ t_pc = "walk" /\ t_rule \in {"FF001", "FF013"}
    /\ t_idx <= Len(all_files(t_rule, tree))
    /\ all_files(t_rule, tree)[t_idx].content = "unreadable"
    /\ t_ret' = "raised"
    /\ t_pc' = "done"
    /\ UNCHANGED <<t_rule, tree, enum_body, defined_events, t_idx, all_violations, triggered_events,
                   warnings, orphaned, printed>>

\* after the loop: print the findings in list order and return
TreeReport ==
    /\ t_pc = "walk"
    /\ t_idx > Len(all_files(t_rule, tree))
    /\ IF t_rule = "FF001"
       THEN /\ orphaned' = orphaned_events(defined_events, triggered_events)
            /\ t_ret' = IF orphaned' # {} THEN "fail" ELSE "pass"
            /\ UNCHANGED printed
       ELSE /\ printed' = all_violations
            /\ t_ret' = IF all_violations # <<>> THEN "fail" ELSE "pass"
            /\ UNCHANGED orphaned
    /\ t_pc' = "done"
    /\ UNCHANGED <<t_rule, tree, enum_body, defined_events, t_idx, all_violations, triggered_events,
                   warnings>>

TreeOff ==
    /\ t_pc = "off" /\ t_rule = "none" /\ tree = <<>> /\ enum_body = {}
    /\ defined_events = {}
    /\ t_idx = 0 /\ all_violations = <<>> /\ triggered_events = {} /\ warnings = <<>>
    /\ orphaned = {} /\ printed = <<>> /\ t_ret = "none"

(***************************************************************************)
(* One verify function applied to one input                                *)
(*                                                                         *)
(* The functions below read a text and return; nothing is kept between     *)
(* calls.  v_input is the text (as lines of tokens) and v_result the value *)
(* returned.                                                               *)
(***************************************************************************)
MaxBody      == 3      \* lines between the braces of the struct
MaxFuncLines == 3      \* lines of the file extract_functions reads
MaxBet       == 3      \* statements of the body of Game_ResolveRound
MaxCleanup   == 4      \* calls in the body of CleanupBlackjackScene
MaxMain      == 41     \* lines of main.c
MaxDamage    == 14     \* lines of the file that calls TakeDamage

\* the functions, by name
VerRules ==
    {"parse_c_struct", "extract_functions", "verify_bet_capture_timing",
     "verify_critical_cleanup_order", "check_startup_validation",
     "verify_take_damage_uses_modifiers", "verify_double_pointer_destructors"}

\* lines of a struct body: blank, "int x;", "// int x;", "/* int x;",
\* "int x; */", "*/ /*" and "/* int x; */"
BodyLineForms ==
    { <<>>, <<"f">>, <<"//", "f">>, <<"/*", "f">>, <<"f", "*/">>,
      <<"*/", "/*">>, <<"/*", "f", "*/">> }

\* "\n".join(lines) followed by a newline
RECURSIVE join_nl(_)
join_nl(ls) ==
    IF ls = <<>> THEN <<>> ELSE Head(ls) \o <<"nl">> \o join_nl(Tail(ls))

\* the header file "typedef struct Card {" / body lines / "} Card_t;"
StructText(body_lines) == <<"T", "{", "nl">> \o join_nl(body_lines) \o <<"}", "N">>

\* lines of a C file: "void f() {", "void f() { }", "void f() { if (x) {",
\* "{", "}" and a statement
FuncLineForms ==
    { <<"H", "{">>, <<"H", "{", "}">>, <<"H", "{", "{">>, <<"{">>, <<"}">>, <<"x">> }

\* re.match(func_pattern, line): return type, name, parameter list and "{"
\* at the start of the line
func_pattern_match(line) ==
    Len(lstrip(line)) >= 2 /\ lstrip(line)[1] = "H" /\ lstrip(line)[2] = "{"

\* "for i in range(line_num, len(lines))" of extract_functions: j is the
\* 1-based number of lines[i]
RECURSIVE find_func_end(_, _, _, _)
find_func_end(ls, j, count, start) ==
    IF j > Len(ls) THEN start
    ELSE LET after == count + Count(ls[j], "{") - Count(ls[j], "}")
         IN  IF after = 0 THEN j ELSE find_func_end(ls, j + 1, after, start)

\* FF-014 extract_functions, the dictionary as a set of [start, end]
\* (each header names a function of its own)
extract_functions(ls) ==
    { [start |-> n, end |-> find_func_end(ls, n + 1, 1, n)] :
        n \in { k \in 1..Len(ls) : func_pattern_match(ls[k]) } }

\* statements of Game_ResolveRound: "C1" is
\* "int bet_amount = player->current_bet;", "C2" the same capture written
\* "int bet_amount=player->current_bet;", "W" is "WinBet(player);", "L" is
\* "LoseBet(player);" and "x" any other statement
BetTokens == {"C1", "C2", "W", "L", "x"}

\* str.find for a text that is one of the tokens in toks: the 0-based
\* offset of its first occurrence, -1 if there is none
find(text, toks) ==
    IF \A k \in 1..Len(text) : text[k] \notin toks THEN -1
    ELSE (CHOOSE k \in 1..Len(text) :
             text[k] \in toks /\ \A q \in 1..(k - 1) : text[q] \notin toks) - 1

\* re.search(r'(int|uint32_t)\s+bet_amount\s*=\s*player->current_bet', ...)
bet_capture_search(func_body) == find(func_body, {"C1", "C2"}) # -1

\* FF-010 verify_bet_capture_timing from the extracted func_body on
verify_bet_capture_timing(func_body) ==
    IF func_body = <<>> THEN TRUE
    ELSE IF ~bet_capture_search(func_body) THEN TRUE
    ELSE LET bet_capture_pos == find(func_body, {"C1"})
             win_bet_pos  == find(func_body, {"W"})
             lose_bet_pos == find(func_body, {"L"})
             bet_clear_positions == {win_bet_pos, lose_bet_pos} \ {-1}
         IN  IF bet_clear_positions = {} THEN TRUE
             ELSE LET first_bet_clear_pos ==
                        CHOOSE p \in bet_clear_positions :
                            \A q \in bet_clear_positions : p <= q
                  IN  ~(bet_capture_pos > first_bet_clear_pos)

\* calls of the two cleanup functions: in Cleanup() of main.c "K" is
\* CleanupTrinketSystem and "M" CleanupCardMetadata; in CleanupBlackjackScene
\* "T" is DestroyTutorialSystem, "L" CleanupLayout, "C" State_CleanupContext
\* and "P" DestroyPlayer
MainCleanupBodies == { <<>>, <<"K", "M">>, <<"M", "K">> }
SceneCalls == {"T", "L", "C", "P"}

\* FF-014 verify_critical_cleanup_order, given the bodies of the two functions
verify_critical_cleanup_order(main_body, cleanup_body) ==
    LET trinket_pos  == find(main_body, {"K"})
        metadata_pos == find(main_body, {"M"})
        tutorial_pos == find(cleanup_body, {"T"})
        layout_pos   == find(cleanup_body, {"L"})
        context_pos  == find(cleanup_body, {"C"})
        player_pos   == find(cleanup_body, {"P"})
        order_violations ==
            (IF tutorial_pos # -1 /\ layout_pos # -1 /\ layout_pos < tutorial_pos
             THEN <<"CleanupLayout() before DestroyTutorialSystem()">> ELSE <<>>)
            \o (IF layout_pos # -1 /\ context_pos # -1 /\ context_pos < layout_pos
                THEN <<"State_CleanupContext() before CleanupLayout()">> ELSE <<>>)
            \o (IF context_pos # -1 /\ player_pos # -1 /\ player_pos < context_pos
                THEN <<"DestroyPlayer() before State_CleanupContext()">> ELSE <<>>)
    IN  IF trinket_pos # -1 /\ metadata_pos # -1 /\ metadata_pos < trinket_pos
        THEN [pass |-> FALSE, violations |-> <<>>]
        ELSE [pass |-> order_violations = <<>>, violations |-> order_violations]

\* the 20 of "max(0, i - 20)" and "min(len(lines), i + 20)"
DialogWindow == 20

\* main.c with n lines: line v calls Validate<X>Database( and line s names
\* SDL_ShowSimpleMessageBox (0: no such line); the other lines do neither
MainLines(n, v, s) ==
    [k \in 1..n |-> (IF k = v THEN <<"V">> ELSE <<>>) \o (IF k = s THEN <<"S">> ELSE <<>>)
                   \o (IF k # v /\ k # s THEN <<"x">> ELSE <<>>)]

\* the files, each given by its length and the two line numbers
MainFiles ==
    { f \in [readable : {TRUE}, n : 0..MaxMain, v : 0..MaxMain, s : 0..MaxMain] :
        f.v <= f.n /\ f.s <= f.n }
    \cup { [readable |-> FALSE, n |-> 0, v |-> 0, s |-> 0] }

\* lines = main_c_content.split('\n')
main_c_lines(f) == MainLines(f.n, f.v, f.s)

Min(a, b) == IF a < b THEN a ELSE b
Max(a, b) == IF a > b THEN a ELSE b

\* FF-019 check_startup_validation: success of the returned pair.  i and j
\* are the 0-based indices of the loops, lines[j] being ls[j + 1]
check_startup_validation(main_c) ==
    IF ~main_c.readable THEN FALSE
    ELSE LET ls == main_c_lines(main_c) IN
         IF \A k \in 1..Len(ls) : ~InLine(ls[k], "V") THEN FALSE
         ELSE \E i \in 0..(Len(ls) - 1) :
                /\ InLine(ls[i + 1], "V")
                /\ \E j \in Max(0, i - DialogWindow)..(Min(Len(ls), i + DialogWindow) - 1) :
                      InLine(ls[j + 1], "S")

\* before=10 and after=2 of get_surrounding_lines
ContextBefore == 10
ContextAfter  == 2

\* a .c file of n lines: line t is "TakeDamage(player, dmg);", line a names
\* ApplyPlayerDamageModifiers (0: no line does), as the call
\* "dmg = ApplyPlayerDamageModifiers(player, dmg);" or as the comment
\* "// ApplyPlayerDamageModifiers not needed here"
DamageLines(n, t, a, form) ==
    [k \in 1..n |-> IF k = t THEN <<"D">>
                    ELSE IF k = a THEN form
                    ELSE <<"x">>]

\* the files, each given by its length, the two line numbers and the form
DamageFiles ==
    { f \in [n : 1..MaxDamage, t : 1..MaxDamage, a : 0..MaxDamage,
             form : { <<"A">>, <<"//", "A">> }] :
        f.t <= f.n /\ f.a <= f.n }

\* lines = content.split('\n')
damage_lines(f) == DamageLines(f.n, f.t, f.a, f.form)

\* FF-013 find_function_callsites(content, 'TakeDamage'): the line numbers
find_function_callsites(ls) ==
    { n \in 1..Len(ls) :
        /\ ~(strip(ls[n]) # <<>> /\ strip(ls[n])[1] \in {"//", "/*", "*/", "*"})
        /\ InLine(ls[n], "D") }

\* FF-013 get_surrounding_lines: lines[start:end] as 1-based line numbers
get_surrounding_lines(ls, target_line, before, after) ==
    LET start == Max(0, target_line - before - 1)
        end   == Min(Len(ls), target_line + after)
    IN  (start + 1)..end

\* the violations verify_take_damage_uses_modifiers collects in one file
take_damage_violations(ls) ==
    { n \in find_function_callsites(ls) :
        ~\E k \in get_surrounding_lines(ls, n, ContextBefore, ContextAfter) :
            InLine(ls[k], "A") }

\* Create*() functions that return a pointer, the second one of the
\* known_exceptions
CreateNames == {"CreateButton", "CreateModal", "CreateBlackjackTutorial"}
known_exceptions == {"CreateBlackjackTutorial", "CreateEventChoice"}

\* what the project declares for one name: whether the Create*() is there,
\* and the signatures of its Destroy*() in the files that hold one, in the
\* order find_destroy_function_signature reads them ("double":
\* void DestroyX(X_t** p), "single": void DestroyX(X_t* p))
DestroyDecls ==
    { <<>>, <<"single">>, <<"double">>, <<"single", "double">>, <<"double", "single">> }
Projects ==
    { p \in [CreateNames -> [created : BOOLEAN, destroy : DestroyDecls]] :
        \A c \in CreateNames : ~p[c].created => p[c].destroy = <<>> }

\* FF-015 find_create_functions
find_create_functions(project) == { c \in CreateNames : project[c].created }

\* FF-015 find_destroy_function_signature: None, or is_double_pointer of the
\* first file in which either pattern matches
find_destroy_function_signature(project, create_func) ==
    IF project[create_func].destroy = <<>> THEN "None"
    ELSE IF project[create_func].destroy[1] = "double" THEN "double" ELSE "single"

\* the violations of Check 1 of verify_double_pointer_destructors
destructor_violations(project) ==
    { c \in find_create_functions(project) :
        /\ find_destroy_function_signature(project, c) # "None"
        /\ find_destroy_function_signature(project, c) # "double"
        /\ c \notin known_exceptions }

VerInputs(rule) ==
    CASE rule = "parse_c_struct" -> [body : SeqsUpTo(BodyLineForms, MaxBody)]
      [] rule = "extract_functions" -> [lines : SeqsUpTo(FuncLineForms, MaxFuncLines)]
      [] rule = "verify_bet_capture_timing" -> [func_body : SeqsUpTo(BetTokens, MaxBet)]
      [] rule = "check_startup_validation" -> [main_c : MainFiles]
      [] rule = "verify_double_pointer_destructors" -> [project : Projects]
      [] rule = "verify_take_damage_uses_modifiers" -> [c_file : DamageFiles]
      [] rule = "verify_critical_cleanup_order" ->
            [main_body : MainCleanupBodies, cleanup_body : SeqsUpTo(SceneCalls, MaxCleanup)]

VerInit ==
    /\ v_pc = "call"
    /\ v_rule \in VerRules
    /\ v_input \in VerInputs(v_rule)
    /\ v_result = [kind |-> "none"]

\* FF-004 parse_c_struct(header_path, "Card")
FF004_parse_c_struct ==
    /\ v_pc = "call" /\ v_rule = "parse_c_struct"
    /\ v_result' = [kind |-> "struct"] @@ parse_c_struct(StructText(v_input.body))
    /\ v_pc' = "done"
    /\ UNCHANGED <<v_rule, v_input>>

\* FF-014 extract_functions(content)
FF014_extract_functions ==
    /\ v_pc = "call" /\ v_rule = "extract_functions"
    /\ v_result' = [kind |-> "functions", functions |-> extract_functions(v_input.lines)]
    /\ v_pc' = "done"
    /\ UNCHANGED <<v_rule, v_input>>

\* FF-010 verify_bet_capture_timing(project_root)
FF010_verify_bet_capture_timing ==
    /\ v_pc = "call" /\ v_rule = "verify_bet_capture_timing"
    /\ v_result' = [kind |-> "verdict",
                    pass |-> verify_bet_capture_timing(v_input.func_body)]
    /\ v_pc' = "done"
    /\ UNCHANGED <<v_rule, v_input>>

\* FF-014 verify_critical_cleanup_order(project_root)
FF014_verify_critical_cleanup_order ==
    /\ v_pc = "call" /\ v_rule = "verify_critical_cleanup_order"
    /\ v_result' = [kind |-> "verdict"] @@
                   verify_critical_cleanup_order(v_input.main_body, v_input.cleanup_body)
    /\ v_pc' = "done"
    /\ UNCHANGED <<v_rule, v_input>>

\* FF-019 check_startup_validation(loader, main_c_path)
FF019_check_startup_validation ==
    /\ v_pc = "call" /\ v_rule = "check_startup_validation"
    /\ v_result' = [kind |-> "verdict", pass |-> check_startup_validation(v_input.main_c)]
    /\ v_pc' = "done"
    /\ UNCHANGED <<v_rule, v_input>>

\* FF-013 verify_take_damage_uses_modifiers(project_root), src holding the
\* one file
FF013_verify_take_damage_uses_modifiers ==
    /\ v_pc = "call" /\ v_rule = "verify_take_damage_uses_modifiers"
    /\ v_result' = [kind |-> "verdict",
                    pass |-> take_damage_violations(damage_lines(v_input.c_file)) = {},
                    violations |-> take_damage_violations(damage_lines(v_input.c_file))]
    /\ v_pc' = "done"
    /\ UNCHANGED <<v_rule, v_input>>

\* FF-015 verify_double_pointer_destructors(project_root): Check 2 and
\* Check 3 print and never clear all_valid
FF015_verify_double_pointer_destructors ==
    /\ v_pc = "call" /\ v_rule = "verify_double_pointer_destructors"
    /\ v_result' = [kind |-> "verdict",
                    pass |-> destructor_violations(v_input.project) = {},
                    violations |-> destructor_violations(v_input.project)]
    /\ v_pc' = "done"
    /\ UNCHANGED <<v_rule, v_input>>

VerOff ==
    /\ v_pc = "off" /\ v_rule = "none" /\ v_input = [kind |-> "none"]
    /\ v_result = [kind |-> "none"]

Init == RunInit /\ ScanOff /\ ExtOff /\ DetOff /\ TreeOff /\ VerOff

Next ==
    \/ LoadModule   /\ UNCHANGED <<scanVars, extVars, detVars, treeVars, verVars>>
    \/ LoadRaises   /\ UNCHANGED <<scanVars, extVars, detVars, treeVars, verVars>>
    \/ Start        /\ UNCHANGED <<loaded, load_failed, scanVars, extVars, detVars, treeVars, verVars>>
    \/ RuleReturns  /\ UNCHANGED <<loaded, load_failed, scanVars, extVars, detVars, treeVars, verVars>>
    \/ RuleCrashes  /\ UNCHANGED <<loaded, load_failed, scanVars, extVars, detVars, treeVars, verVars>>
    \/ ReturnResults /\ UNCHANGED <<loaded, load_failed, scanVars, extVars, detVars, treeVars, verVars>>
    \/ PrintSummary /\ UNCHANGED <<loaded, load_failed, scanVars, extVars, detVars, treeVars, verVars>>
    \/ SysExit      /\ UNCHANGED <<loaded, load_failed, scanVars, extVars, detVars, treeVars, verVars>>

Spec == Init /\ [][Next]_vars

InitScan == RunOff /\ ScanInit /\ ExtOff /\ DetOff /\ TreeOff /\ VerOff

NextScan ==
    \/ FF003_Line    /\ UNCHANGED <<runVars, extVars, detVars, treeVars, verVars>>
    \/ FF006_NoMatch /\ UNCHANGED <<runVars, extVars, detVars, treeVars, verVars>>
    \/ FF006_Match   /\ UNCHANGED <<runVars, extVars, detVars, treeVars, verVars>>
    \/ ScanReturn    /\ UNCHANGED <<runVars, extVars, detVars, treeVars, verVars>>

SpecScan == InitScan /\ [][NextScan]_vars

InitExt == RunOff /\ ScanOff /\ ExtInit /\ DetOff /\ TreeOff /\ VerOff

NextExt ==
    \/ ParseGameEvents /\ UNCHANGED <<runVars, scanVars, detVars, treeVars, verVars, win_branches, fields, not_found>>
    \/ SearchHeader    /\ UNCHANGED <<runVars, scanVars, detVars, treeVars, verVars, win_branches, fields, not_found>>
    \/ FF010_Char      /\ UNCHANGED <<runVars, scanVars, detVars, treeVars, verVars, win_branches, fields, not_found>>
    \/ FF010_Exhausted /\ UNCHANGED <<runVars, scanVars, detVars, treeVars, verVars, win_branches, fields, not_found>>
    \/ FF005_Char      /\ UNCHANGED <<runVars, scanVars, detVars, treeVars, verVars, win_branches, fields, not_found>>
    \/ FF005_Slice     /\ UNCHANGED <<runVars, scanVars, detVars, treeVars, verVars, win_branches, fields, not_found>>
    \/ FF002_FindLine  /\ UNCHANGED <<runVars, scanVars, detVars, treeVars, verVars, win_branches, fields, not_found>>
    \/ FF002_Char      /\ UNCHANGED <<runVars, scanVars, detVars, treeVars, verVars, win_branches, fields, not_found>>
    \/ FF002_Exhausted /\ UNCHANGED <<runVars, scanVars, detVars, treeVars, verVars, win_branches, fields, not_found>>
    \/ FF002_FindPayouts /\ UNCHANGED <<runVars, scanVars, detVars, treeVars, verVars>>
    \/ ParseCStruct    /\ UNCHANGED <<runVars, scanVars, detVars, treeVars, verVars>>
    \/ FF010_Caller     /\ UNCHANGED <<runVars, scanVars, detVars, treeVars, verVars>>
    \/ FF007_Find       /\ UNCHANGED <<runVars, scanVars, detVars, treeVars, verVars, win_branches, fields, not_found>>
    \/ FF007_Char       /\ UNCHANGED <<runVars, scanVars, detVars, treeVars, verVars, win_branches, fields, not_found>>
    \/ FF007_Slice      /\ UNCHANGED <<runVars, scanVars, detVars, treeVars, verVars, win_branches, fields, not_found>>
    \/ FF008_Find       /\ UNCHANGED <<runVars, scanVars, detVars, treeVars, verVars, win_branches, fields, not_found>>
    \/ FF008_Char       /\ UNCHANGED <<runVars, scanVars, detVars, treeVars, verVars, win_branches, fields, not_found>>
    \/ FF008_IndexError /\ UNCHANGED <<runVars, scanVars, detVars, treeVars, verVars, win_branches, fields, not_found>>
    \/ FF008_Slice      /\ UNCHANGED <<runVars, scanVars, detVars, treeVars, verVars, win_branches, fields, not_found>>

SpecExt == InitExt /\ [][NextExt]_vars

InitDet == RunOff /\ ScanOff /\ ExtOff /\ DetInit /\ TreeOff /\ VerOff

NextDet ==
    \/ FF020_main   /\ UNCHANGED <<runVars, scanVars, extVars, treeVars, verVars>>
    \/ FF014_verify /\ UNCHANGED <<runVars, scanVars, extVars, treeVars, verVars>>
    \/ NewProcess   /\ UNCHANGED <<runVars, scanVars, extVars, treeVars, verVars>>

SpecDet == InitDet /\ [][NextDet]_vars

InitTree == RunOff /\ ScanOff /\ ExtOff /\ DetOff /\ TreeInit /\ VerOff

NextTree ==
    \/ TreeParseEvents    /\ UNCHANGED <<runVars, scanVars, extVars, detVars, verVars>>
    \/ TreeScanFile       /\ UNCHANGED <<runVars, scanVars, extVars, detVars, verVars>>
    \/ TreeSkipUnreadable /\ UNCHANGED <<runVars, scanVars, extVars, detVars, verVars>>
    \/ TreeReadRaises     /\ UNCHANGED <<runVars, scanVars, extVars, detVars, verVars>>
    \/ TreeReport         /\ UNCHANGED <<runVars, scanVars, extVars, detVars, verVars>>

SpecTree == InitTree /\ [][NextTree]_vars

InitVer == RunOff /\ ScanOff /\ ExtOff /\ DetOff /\ TreeOff /\ VerInit

NextVer ==
    \/ FF004_parse_c_struct /\ UNCHANGED <<runVars, scanVars, extVars, detVars, treeVars>>
    \/ FF014_extract_functions /\ UNCHANGED <<runVars, scanVars, extVars, detVars, treeVars>>
    \/ FF014_verify_critical_cleanup_order
                             /\ UNCHANGED <<runVars, scanVars, extVars, detVars, treeVars>>
    \/ FF019_check_startup_validation
                             /\ UNCHANGED <<runVars, scanVars, extVars, detVars, treeVars>>
    \/ FF013_verify_take_damage_uses_modifiers
                             /\ UNCHANGED <<runVars, scanVars, extVars, detVars, treeVars>>
    \/ FF015_verify_double_pointer_destructors
                             /\ UNCHANGED <<runVars, scanVars, extVars, detVars, treeVars>>
    \/ FF010_verify_bet_capture_timing
                             /\ UNCHANGED <<runVars, scanVars, extVars, detVars, treeVars>>

SpecVer == InitVer /\ [][NextVer]_vars

(***************************************************************************)
(* Properties of the line scanners (checked under SpecScan)                *)
(***************************************************************************)
\* Comment structure of C text, token by token: "k" for a token that is
\* code, "c" for a token inside (or delimiting) a comment.  mode is "code",
\* "line" (after //) or "block" (inside /* ... */).
RECURSIVE LexTokens(_, _)
LexTokens(toks, mode) ==
    IF toks = <<>> THEN <<>>
    ELSE LET t == Head(toks) IN
         IF mode = "block"
             THEN <<"c">> \o LexTokens(Tail(toks), IF t = "*/" THEN "code" ELSE "block")
         ELSE IF mode = "line"
             THEN <<"c">> \o LexTokens(Tail(toks), "line")
         ELSE IF t = "//" THEN <<"c">> \o LexTokens(Tail(toks), "line")
         ELSE IF t = "/*" THEN <<"c">> \o LexTokens(Tail(toks), "block")
         ELSE <<"k">> \o LexTokens(Tail(toks), "code")

\* is a block comment still open after these tokens, having started in mode
RECURSIVE BlockOpenAfter(_, _)
BlockOpenAfter(toks, mode) ==
    IF toks = <<>> THEN mode = "block"
    ELSE LET t == Head(toks) IN
         IF mode = "block"
             THEN BlockOpenAfter(Tail(toks), IF t = "*/" THEN "code" ELSE "block")
         ELSE IF mode = "line" THEN FALSE
         ELSE IF t = "//" THEN FALSE
         ELSE IF t = "/*" THEN BlockOpenAfter(Tail(toks), "block")
         ELSE BlockOpenAfter(Tail(toks), "code")

\* mode in which line i of the file starts
RECURSIVE StartMode(_, _)
StartMode(file, i) ==
    IF i = 1 THEN "code"
    ELSE IF BlockOpenAfter(file[i - 1], StartMode(file, i - 1)) THEN "block" ELSE "code"

\* the forbidden pattern occurs on line i, and only inside comments
PatternOnlyInComment(file, i) ==
    LET lex == LexTokens(file[i], StartMode(file, i))
    IN  /\ \E k \in 1..Len(file[i]) : file[i][k] = "PAT"
        /\ \A k \in 1..Len(file[i]) : file[i][k] = "PAT" => lex[k] = "c"

\* the forbidden pattern occurs on line i in code
PatternInCode(file, i) ==
    LET lex == LexTokens(file[i], StartMode(file, i))
    IN  \E k \in 1..Len(file[i]) : file[i][k] = "PAT" /\ lex[k] = "k"

\* the line contains a marker substring of the scanner
HasMarker(sc, line) == \E marker \in EXCEPTION_MARKERS(sc) : Contains(line, marker)

\* a comment line that carries a marker
IsMarkerComment(sc, file, i) ==
    /\ HasMarker(sc, file[i])
    /\ \A k \in 1..Len(file[i]) :
          file[i][k] \notin Whitespace => LexTokens(file[i], StartMode(file, i))[k] = "c"

MarkerWords == {"EXCEPTION:", "FFI:", "DAEDALUS_WRAPPER:"}

\* the file with the marker text taken out of line j
RemoveMarker(file, j) ==
    [file EXCEPT ![j] = SelectSeq(file[j], LAMBDA t : t \notin MarkerWords)]

Reported == { violations[k] : k \in 1..Len(violations) }

InSeq(q, e) == \E k \in 1..Len(q) : q[k] = e

\* the nearest line before i that is not blank, 0 if there is none
RECURSIVE PrevNonBlank(_, _)
PrevNonBlank(file, i) ==
    IF i <= 1 THEN 0
    ELSE IF strip(file[i - 1]) # <<>> THEN i - 1
    ELSE PrevNonBlank(file, i - 1)

\* C8: comment immunity - a line whose forbidden pattern occurs only inside
\* a comment (line comment, or any line of a block comment, including
\* continuation lines that begin with no comment token) is never reported.
C8_CommentImmunity ==
    (s_pc = "done" /\ scanner = "FF003") =>
        \A i \in 1..Len(lines) : PatternOnlyInComment(lines, i) => i \notin Reported

\* C9: exception-marker immunity - a forbidden pattern in code on a line
\* right after an exception-marker comment is not reported, and the same
\* file with that marker removed reports the line.
C9_MarkerImmunity ==
    (s_pc = "done" /\ scanner = "FF003") =>
        \A i \in 2..Len(lines) :
            ( /\ IsMarkerComment("FF003", lines, i - 1)
              /\ PatternInCode(lines, i)
              /\ ~HasMarker("FF003", lines[i]) )
            => /\ i \notin Reported
               /\ InSeq(scan_file_for_violations(RemoveMarker(lines, i - 1)), i)

\* C10 as stated: a flagged code line escapes the report exactly when the
\* line itself or the nearest preceding non-blank line contains a marker.
C10_PrevNonBlankMarker ==
    s_pc = "done" =>
        \A i \in 1..Len(lines) :
            (matches_forbidden(lines[i]) /\ ~is_comment_line(lines[i])) =>
                ( i \notin Reported <=>
                    \/ HasMarker(scanner, lines[i])
                    \/ /\ PrevNonBlank(lines, i) > 0
                       /\ HasMarker(scanner, lines[PrevNonBlank(lines, i)]) )

\* C10 amended: in FF-003 a flagged code line escapes the report exactly
\* when the line itself or the physical line right before it (blank or not)
\* contains a marker, so a blank line in between cancels the exception and a
\* marker on a following line grants none; in FF-006 a marker on the line
\* itself, on the physical line right before it or on the physical line
\* right after it grants the exception.
C10_PhysicalNeighbourMarker ==
    s_pc = "done" =>
        \A i \in 1..Len(lines) :
            (matches_forbidden(lines[i]) /\ ~is_comment_line(lines[i])) =>
                /\ scanner = "FF003" =>
                     ( i \notin Reported <=>
                         \/ HasMarker(scanner, lines[i])
                         \/ i > 1 /\ HasMarker(scanner, lines[i - 1]) )
                /\ scanner = "FF006" =>
                     ( ( \/ HasMarker(scanner, lines[i])
                         \/ i > 1 /\ HasMarker(scanner, lines[i - 1])
                         \/ i < Len(lines) /\ HasMarker(scanner, lines[i + 1]) )
                       => i \notin Reported )

\* a marker comment, a blank line, then flagged code: FF-003 reports it;
\* flagged code followed by a marker comment: FF-006 does not report it
C10_Witness ==
    /\ s_pc = "done"
    /\ Len(lines) = 3
    /\ \/ /\ scanner = "FF003"
          /\ HasMarker(scanner, lines[1]) /\ lines[2] = <<>>
          /\ lines[3] = <<"PAT">> /\ 3 \in Reported
       \/ /\ scanner = "FF006"
          /\ lines[1] = <<>> /\ lines[2] = <<"PAT">>
          /\ HasMarker(scanner, lines[3]) /\ 2 \notin Reported

\* a Comment line as the classifier is defined: after trimming it starts
\* with a line-comment or block-comment token, or it continues a block
\* comment that an earlier line left open
CommentLine(file, i) ==
    \/ StartMode(file, i) = "block"
    \/ LET stripped == strip(file[i])
       IN  stripped # <<>> /\ Head(stripped) \in {"//", "/*"}

\* the line, the physical line before it or the nearest non-blank line
\* before it carries a marker
ExceptionMarked(sc, file, i) ==
    \/ HasMarker(sc, file[i])
    \/ i > 1 /\ HasMarker(sc, file[i - 1])
    \/ PrevNonBlank(file, i) > 0 /\ HasMarker(sc, file[PrevNonBlank(file, i)])

\* C20: every Code line (neither a Comment line nor exception-marked) that
\* contains a forbidden pattern is reported - no Code line is taken for a
\* comment, a statement that begins with '*' included.
C20_CodeLineReported ==
    (s_pc = "done" /\ scanner = "FF003") =>
        \A i \in 1..Len(lines) :
            ( /\ matches_forbidden(lines[i])
              /\ ~CommentLine(lines, i)
              /\ ~ExceptionMarked("FF003", lines, i) )
            => i \in Reported

(***************************************************************************)
(* Properties of the orchestrator (checked under Spec)                     *)
(***************************************************************************)
AllPassed(res) == \A i \in 1..Len(res) : res[i].success

\* C1: the verdict print_summary returns is pass exactly when every recorded
\* outcome is pass, and the exit status is 0 in that case and 1 otherwise.
C1_VerdictIffAllPass ==
    /\ pc \in {"exiting", "exited"} => (overall_success <=> AllPassed(results))
    /\ pc = "exited" => exit_status = (IF AllPassed(results) THEN 0 ELSE 1)

C1_Witness ==
    /\ pc = "exited" /\ exit_status = 1
    /\ \E i \in 1..Len(results) : results[i].success
    /\ \E i \in 1..Len(results) : ~results[i].success

\* C2: crash isolation - whichever rules raise, every registered rule has
\* been invoked when the run ends, each raising rule is recorded as not
\* passed, and the exit status is non-zero.
C2_CrashIsolation ==
    /\ \A i \in 1..Len(results) :
          Rules[i].ff \in crashed => ~results[i].success
    /\ \A ff \in crashed : \E i \in 1..Len(results) : Rules[i].ff = ff
    /\ (pc = "exited" /\ crashed # {}) =>
          /\ \A r \in 1..Len(Rules) : \E i \in 1..Len(invoked) : invoked[i] = Rules[r].ff
          /\ exit_status # 0

C2_Witness ==
    /\ pc = "exited"
    /\ Cardinality(crashed) = 2
    /\ 1 \in crashed
    /\ exit_status = 1

\* C3: the exit status is non-zero exactly when some rule printed a finding
\* of severity Fail or some rule crashed; warnings alone never change it.
C3_ExitIffFailOrCrash ==
    pc = "exited" =>
        (exit_status # 0 <=>
            ((\E ff \in Scripts : "Fail" \in findings[ff]) \/ crashed # {}))

\* C4: every registered rule is executed exactly once, in declared order,
\* and results holds exactly one (name, outcome) entry per executed rule in
\* that order; a finished run has executed all of them.
C4_OncePerRuleInOrder ==
    /\ Len(invoked) = idx - 1
    /\ \A i \in 1..Len(invoked) : invoked[i] = Rules[i].ff
    /\ Len(results) = Len(invoked)
    /\ \A i \in 1..Len(results) : results[i].name = Rules[i].name
    /\ pc \in {"summary", "exiting", "exited"} => Len(results) = Len(Rules)

C4_Witness ==
    /\ pc = "exited"
    /\ crashed # {}
    /\ \E i \in 1..Len(results) : ~results[i].success /\ Rules[i].ff \notin crashed
    /\ \E i \in 1..Len(results) : results[i].success

\* C5: every fitness-function script of the directory (FF-001 .. FF-020) is
\* invoked by the run and has an entry in the results.
C5_AllScriptsRun ==
    pc = "exited" =>
        \A s \in Scripts :
            /\ \E i \in 1..Len(invoked) : invoked[i] = s
            /\ \E i \in 1..Len(results) : i <= Len(Rules) /\ Rules[i].ff = s

\* C19: a failure of one rule while its module is being loaded is isolated
\* like a run-time crash - the run still ends with the summary and the exit
\* status, the rule is recorded as failed and every other rule has run.
C19_LoadFailureIsolated ==
    (load_failed # 0 /\ pc \in {"aborted", "exited"}) =>
        /\ pc = "exited"
        /\ \E i \in 1..Len(results) : Rules[i].ff = load_failed /\ ~results[i].success
        /\ \A r \in 1..Len(Rules) :
              Rules[r].ff # load_failed => InSeq(invoked, Rules[r].ff)

(***************************************************************************)
(* Properties of the brace extractors (checked under SpecExt)              *)
(***************************************************************************)
\* opening minus closing braces of a piece of text
Balance(text) == Count(text, "{") - Count(text, "}")

\* 1-based positions j of closing braces that match the opening brace at
\* 1-based position m: the text m..j balances and no shorter prefix does
MatchingClose(text, m) ==
    { j \in (m + 1)..Len(text) :
        /\ Balance(SubSeq(text, m, j)) = 0
        /\ \A k \in m..(j - 1) : Balance(SubSeq(text, m, k)) > 0 }

\* C6: when the header match is followed by well-formed nested brace pairs,
\* the character-level extractors return exactly the text strictly between
\* the header's opening brace and its matching outer closing brace, and
\* that body has as many '{' as '}'.
C6_BraceBalance ==
    (e_pc = "done" /\ extractor \in {"FF005", "FF010"}) =>
        LET m == header_match_end(content)
        IN  (m # 0 /\ MatchingClose(content, m) # {}) =>
                \A j \in MatchingClose(content, m) :
                    /\ e_result.kind = "body"
                    /\ e_result.body = SubSeq(content, m + 1, j - 1)
                    /\ Count(e_result.body, "{") = Count(e_result.body, "}")

\* a nested pair inside the extracted body
C6_Witness ==
    /\ e_pc = "done" /\ extractor = "FF005"
    /\ header_match_end(content) # 0
    /\ MatchingClose(content, header_match_end(content)) # {}
    /\ e_result.kind = "body"
    /\ Count(e_result.body, "{") >= 1

\* the named construct does not occur in the text
ConstructAbsent ==
    IF extractor = "FF001" THEN \A k \in 1..Len(content) : content[k] # "G"
    ELSE IF extractor = "FF004" THEN \A k \in 1..Len(content) : content[k] # "T"
    ELSE \A k \in 1..Len(content) : content[k] # "H"

\* C7: absence is not failure - for every extractor, when the named
\* construct does not appear in the text, extraction returns 'not found'
\* and does not raise.
C7_AbsenceIsNotFailure ==
    (e_pc = "done" /\ ConstructAbsent) => e_result.kind = "none"

\* the scripts whose brace scan is a while loop over an index
IndexScanners == {"FF005", "FF007", "FF008"}

\* C29: every brace-scanning loop ends without reading past the end of the
\* text, whatever the input - the index is below the text length whenever a
\* character is read, so text whose braces never balance gives a result or
\* a reported failure and never an exception.
C29_ScanStaysInText ==
    (extractor \in IndexScanners) =>
        /\ e_result.kind # "IndexError"
        /\ (e_pc = "done" => e_result.kind \in {"none", "body", "failure"})

\* C29 for the loops of FF-005 and FF-007, which read before they advance
C29_ReadThenAdvance ==
    (extractor \in {"FF005", "FF007"}) =>
        /\ e_result.kind # "IndexError"
        /\ (e_pc = "scan" => pos <= Len(content))
        /\ (e_pc = "done" => e_result.kind \in {"none", "body", "failure"})

\* FF-008 on text whose braces balance after the header
C29_BalancedFF008 ==
    (extractor = "FF008" /\ e_pc = "done" /\ body_start # -1
       /\ MatchingClose(content, body_start + 1) # {}) =>
        e_result.kind = "body"

\* C30: a function whose header is present in the text is never reported as
\* not found - the callers of the character-level extract_function_body
\* report absence only when the header pattern does not match, also when the
\* body is empty or its braces never balance.
C30_PresentNeverNotFound ==
    (e_pc = "reported" /\ extractor = "FF010" /\ not_found) =>
        header_match_end(content) = 0

\* C30 for functions whose extracted body is not empty
C30_NonEmptyBody ==
    (e_pc = "reported" /\ extractor = "FF010" /\ not_found
       /\ e_result.body # <<>>) =>
        header_match_end(content) = 0

\* an absent function is reported
C30_AbsentReported ==
    (e_pc = "reported" /\ extractor = "FF010" /\ header_match_end(content) = 0) =>
        not_found

(***************************************************************************)
(* Properties of repeated runs (checked under SpecDet)                     *)
(***************************************************************************)
\* C11: determinism - every run of the rule over the unchanged files, in
\* the same process or in another one, prints the same violations and
\* returns the same verdict as the first run.
C11_Determinism ==
    \A i, j \in 1..Len(reports) : reports[i] = reports[j]

\* lines of the file that the extracted function spans, 1-indexed
FunctionLines == (body_start + 1)..(line_of(content, pos) + 1)

\* C12: every line number FF-002 reports for a payout branch of the
\* extracted function is the 1-indexed line of the original file that holds
\* the payout statement, and every payout line of the function is reported,
\* wherever the function's opening brace stands.
C12_PayoutFileLines ==
    (e_pc = "reported" /\ extractor = "FF002") =>
        LET file == split_nl(content)
        IN  /\ \A k \in 1..Len(win_branches) :
                  /\ win_branches[k] \in 1..Len(file)
                  /\ InSeq(file[win_branches[k]], "W")
            /\ \A n \in FunctionLines :
                  InSeq(file[n], "W") => InSeq(win_branches, n)

\* the opening brace stands on a later line than the header and a payout
\* is reported
C12_Witness ==
    /\ e_pc = "reported" /\ extractor = "FF002"
    /\ body_start > func_start
    /\ win_branches # <<>>

\* C13: for every field returned by parse_c_struct, line_number is the
\* 1-indexed line of the header file on which the field's declaration
\* appears.
C13_FieldFileLines ==
    (e_pc = "done" /\ extractor = "FF004") =>
        LET file == split_nl(content)
        IN  \A k \in 1..Len(fields) :
               /\ fields[k].line_number \in 1..Len(file)
               /\ Contains(file[fields[k].line_number], fields[k].declaration)

\* a struct or enum definition whose body holds an inner brace pair:
\* [open, close] are the 1-based positions of the outer braces
NestedDefinitions ==
    { d \in [open : 1..Len(content), close : 1..Len(content)] :
        /\ content[d.open] = "{"
        /\ d.close \in MatchingClose(content, d.open)
        /\ \E k \in (d.open + 1)..(d.close - 1) : content[k] = "{"
        /\ IF extractor = "FF001"
           THEN /\ d.open > 1 /\ content[d.open - 1] = "E"
                /\ d.close < Len(content) /\ content[d.close + 1] = "G"
           ELSE /\ \E a \in 1..(d.open - 1) :
                      /\ content[a] = "T"
                      /\ \A k \in (a + 1)..(d.open - 1) : content[k] = "nl"
                /\ \E n \in (d.close + 1)..Len(content) :
                      /\ content[n] = "N"
                      /\ \A k \in (d.close + 1)..(n - 1) : content[k] = "nl" }

\* C14: struct and enum body extraction tolerates nested braces - when the
\* definition's body contains an inner brace pair, the construct is found
\* and the body returned runs up to the matching outer closing brace.
C14_NestedBraces ==
    (e_pc = "done" /\ extractor \in {"FF001", "FF004"}) =>
        \A d \in NestedDefinitions :
            /\ e_result.kind = "body"
            /\ e_result.body = SubSeq(content, d.open + 1, d.close - 1)

(***************************************************************************)
(* Properties of the file-tree walks (checked under SpecTree)              *)
(***************************************************************************)
\* the values of the GameEvent_t enum: the enumerator lines of its body
EnumValues == enum_body \cap Events

\* the events some .c file of the src tree triggers: the file holds the call
\* statement itself
CallSites ==
    { e \in Events : \E k \in 1..Len(tree) :
        /\ tree[k].path.root = "src" /\ tree[k].path.ext = "c"
        /\ tree[k].content = e }

\* C15: event coverage - verify_event_coverage returns pass if and only if
\* every value of the GameEvent_t enum has at least one Game_TriggerEvent
\* call site; otherwise the orphans it reports are exactly the defined
\* events minus the triggered ones and the rule fails.
C15_EventCoverage ==
    (t_pc = "done" /\ t_rule = "FF001" /\ t_ret # "raised") =>
        /\ t_ret = "pass" <=> EnumValues \subseteq CallSites
        /\ t_ret = "fail" <=> (EnumValues \ CallSites) # {}
        /\ orphaned = EnumValues \ CallSites

\* without comments the verdict is the set difference: both events defined,
\* one of them triggered, exactly the other is reported
C15_SetDifference ==
    /\ t_pc = "done" /\ t_rule = "FF001"
    /\ enum_body = Events
    /\ Cardinality(CallSites) = 1
    /\ t_ret = "fail"
    /\ orphaned = Events \ CallSites

\* C21: the event-coverage rule ignores comments - an identifier that stands
\* only in a comment of the enum body is not counted as a defined event, and
\* a Game_TriggerEvent call that stands only in a comment is not counted as
\* a trigger call site.
C21_CommentsIgnored ==
    (t_rule = "FF001" /\ t_pc \in {"walk", "done"}) =>
        /\ defined_events = EnumValues
        /\ triggered_events \subseteq CallSites

\* the enumerator side of C21 alone
C21_EnumCommentIgnored ==
    (t_rule = "FF001" /\ t_pc \in {"walk", "done"}) => defined_events = EnumValues

\* the call side of C21 alone
C21_CallCommentIgnored ==
    (t_rule = "FF001" /\ t_pc \in {"walk", "done"}) => triggered_events \subseteq CallSites

\* the files the loop of the verify function has gone through
Visited == { all_files(t_rule, tree)[k].path : k \in 1..(t_idx - 1) }

\* C16: an unreadable source file is recovered locally in every rule - a
\* warning is printed for it, the rule goes on through the remaining files
\* and ends without raising, and it passes when no readable file has a
\* finding.
C16_UnreadableRecovered ==
    t_pc = "done" =>
        LET files == all_files(t_rule, tree)
        IN  /\ t_ret # "raised"
            /\ t_idx = Len(files) + 1
            /\ \A k \in 1..Len(files) :
                  files[k].content = "unreadable" => InSeq(warnings, files[k].path)
            /\ ( /\ t_rule # "FF001"
                 /\ \A k \in 1..Len(files) : files[k].content # "hit" )
               => t_ret = "pass"

\* the directory names the exclusion policy lists
ExcludedDirs == {"external", "vendor", "third_party"}

\* the rule's extension rule: *.c under src, and *.h under include for the
\* rules that read headers
ExtensionMatches(rule, path) ==
    \/ path.root = "src" /\ path.ext = "c"
    \/ rule \in {"FF003", "FF006", "FF016"} /\ path.root = "include" /\ path.ext = "h"

\* C17: in every rule that walks the file tree, a file is scanned if and
\* only if its extension matches and no directory segment of its path is an
\* excluded directory name (external, vendor, third_party); no violation
\* names a file under an excluded directory.
C17_ScannedIffIncluded ==
    (t_pc = "done" /\ t_ret # "raised") =>
        /\ \A k \in 1..Len(tree) :
              tree[k].path \in Visited <=>
                  /\ ExtensionMatches(t_rule, tree[k].path)
                  /\ {tree[k].path.root, tree[k].path.dir} \cap ExcludedDirs = {}
        /\ \A k \in 1..Len(all_violations) :
              all_violations[k].file.dir \notin ExcludedDirs

\* position of a path in the lexicographic order of the path strings
PathKey(path) ==
    (IF path.root = "include" THEN 0 ELSE 4)
    + (IF path.dir = "external" THEN 0 ELSE 2)
    + (IF path.ext = "c" THEN 0 ELSE 1)

\* C18: the violations are printed sorted by (file, line), whatever the
\* order in which the files were enumerated.
C18_SortedReport ==
    (t_pc = "done" /\ t_rule # "FF001") =>
        \A i, j \in 1..Len(printed) :
            i < j =>
                \/ PathKey(printed[i].file) < PathKey(printed[j].file)
                \/ /\ PathKey(printed[i].file) = PathKey(printed[j].file)
                   /\ printed[i].line <= printed[j].line
(***************************************************************************)
(* Properties of the single verify functions (checked under SpecVer)       *)
(***************************************************************************)
\* the lines body.split('\n') gives for the header of v_input: the rest of
\* the "typedef struct" line, the body lines, and the text before "}"
SplitBody == <<<<>>>> \o v_input.body \o <<<<>>>>

\* line n of these lines is a Code line: not blank, not begun by a comment
\* token, and not begun inside a block comment an earlier line left open
CodeLine(ls, n) ==
    /\ strip(ls[n]) # <<>>
    /\ strip(ls[n])[1] \notin {"//", "/*"}
    /\ StartMode(ls, n) # "block"

\* the lines parse_c_struct made a field of (line_number is
\* struct_start_line + rel_line_num, and struct_start_line is 1)
FieldLines == { v_result.fields[k].line_number - 1 : k \in 1..Len(v_result.fields) }

\* C22: parse_c_struct parses fields only from Code lines of the body - no
\* field comes from a line that lies inside a block comment (a line that
\* closes one comment and opens another included), nor from a blank line or
\* a line comment.
C22_FieldsOnlyFromCode ==
    (v_pc = "done" /\ v_rule = "parse_c_struct") =>
        \A n \in FieldLines : CodeLine(SplitBody, n)

\* C22 holds while no line both closes and opens a block comment
C22_WithoutCloseOpenLine ==
    (v_pc = "done" /\ v_rule = "parse_c_struct"
       /\ \A n \in 1..Len(v_input.body) :
             ~(InLine(v_input.body[n], "*/") /\ InLine(v_input.body[n], "/*")
               /\ BlockOpenAfter(v_input.body[n], StartMode(v_input.body, n)))) =>
        \A n \in FieldLines : CodeLine(SplitBody, n)

\* the line of the closing brace that matches the opening brace of the header
\* on line n (0 if there is none): the text is read token by token from the
\* token after that brace, depth counting the braces open at that point
RECURSIVE ClosingLine(_, _, _, _)
ClosingLine(ls, n, k, depth) ==
    IF n > Len(ls) THEN 0
    ELSE IF k > Len(ls[n]) THEN ClosingLine(ls, n + 1, 1, depth)
    ELSE LET d == IF ls[n][k] = "{" THEN depth + 1
                  ELSE IF ls[n][k] = "}" THEN depth - 1 ELSE depth
         IN  IF d = 0 THEN n ELSE ClosingLine(ls, n, k + 1, d)

\* the header lines of the file
HeaderLines(ls) == { n \in 1..Len(ls) : Len(ls[n]) >= 2 /\ ls[n][1] = "H" /\ ls[n][2] = "{" }

\* C23: extract_functions maps every function whose header line matches to
\* (start_line, end_line), end_line being the line of the closing brace that
\* matches the header's opening brace, for every brace layout - a body that
\* opens and closes on the header line and a header line with further
\* braces included.
C23_FunctionBoundaries ==
    (v_pc = "done" /\ v_rule = "extract_functions") =>
        \A n \in HeaderLines(v_input.lines) :
            ClosingLine(v_input.lines, n, 3, 1) # 0 =>
                [start |-> n, end |-> ClosingLine(v_input.lines, n, 3, 1)]
                    \in v_result.functions

\* C23 holds while every header line ends at its opening brace
C23_PlainHeaders ==
    (v_pc = "done" /\ v_rule = "extract_functions"
       /\ \A n \in HeaderLines(v_input.lines) : Len(v_input.lines[n]) = 2) =>
        \A n \in HeaderLines(v_input.lines) :
            ClosingLine(v_input.lines, n, 3, 1) # 0 =>
                [start |-> n, end |-> ClosingLine(v_input.lines, n, 3, 1)]
                    \in v_result.functions

\* 1-based position of the first token of text that is in toks, 0 if none
FirstAt(text, toks) ==
    IF \A k \in 1..Len(text) : text[k] \notin toks THEN 0
    ELSE CHOOSE k \in 1..Len(text) :
            text[k] \in toks /\ \A q \in 1..(k - 1) : text[q] \notin toks

\* C24: bet capture ordering - whenever Game_ResolveRound holds both a bet
\* capture (any text the capture pattern accepts) and a WinBet( or LoseBet(
\* call, verify_bet_capture_timing fails exactly when the capture stands at
\* a greater offset than the first WinBet( / LoseBet( call of the body.
C24_CaptureBeforeClear ==
    (v_pc = "done" /\ v_rule = "verify_bet_capture_timing"
       /\ FirstAt(v_input.func_body, {"C1", "C2"}) # 0
       /\ FirstAt(v_input.func_body, {"W", "L"}) # 0) =>
        (~v_result.pass <=>
            FirstAt(v_input.func_body, {"C1", "C2"}) > FirstAt(v_input.func_body, {"W", "L"}))

\* C24 holds while every capture is written with single blanks around "="
C24_LiteralCapture ==
    (v_pc = "done" /\ v_rule = "verify_bet_capture_timing"
       /\ FirstAt(v_input.func_body, {"C2"}) = 0
       /\ FirstAt(v_input.func_body, {"C1"}) # 0
       /\ FirstAt(v_input.func_body, {"W", "L"}) # 0) =>
        (~v_result.pass <=>
            FirstAt(v_input.func_body, {"C1"}) > FirstAt(v_input.func_body, {"W", "L"}))

\* the order the calls of CleanupBlackjackScene are to come in
CleanupRank(c) == CASE c = "T" -> 1 [] c = "L" -> 2 [] c = "C" -> 3 [] c = "P" -> 4

\* two calls present in the body whose first occurrences are out of order
OutOfOrder(body) ==
    \E a, b \in SceneCalls :
        /\ CleanupRank(a) < CleanupRank(b)
        /\ FirstAt(body, {a}) # 0 /\ FirstAt(body, {b}) # 0
        /\ FirstAt(body, {b}) < FirstAt(body, {a})

\* C25: critical cleanup order - verify_critical_cleanup_order fails whenever
\* two of the calls DestroyTutorialSystem, CleanupLayout, State_CleanupContext
\* and DestroyPlayer present in CleanupBlackjackScene first occur out of the
\* order Tutorial, Layout, GameContext, Players, also when a call between
\* them is absent.
C25_CleanupOrder ==
    (v_pc = "done" /\ v_rule = "verify_critical_cleanup_order") =>
        (OutOfOrder(v_input.cleanup_body) => ~v_result.pass)

\* C25 holds while all four calls are present
C25_AllFourPresent ==
    (v_pc = "done" /\ v_rule = "verify_critical_cleanup_order"
       /\ \A c \in SceneCalls : FirstAt(v_input.cleanup_body, {c}) # 0) =>
        (OutOfOrder(v_input.cleanup_body) => ~v_result.pass)

\* main.c holds a Validate<X>Database call and a line naming
\* SDL_ShowSimpleMessageBox, the latter d lines after the former (d < 0:
\* before it)
DialogOffset(d) ==
    /\ v_input.main_c.readable
    /\ v_input.main_c.v # 0 /\ v_input.main_c.s # 0
    /\ v_input.main_c.s - v_input.main_c.v = d

\* C26: check_startup_validation accepts a loader if and only if main.c holds
\* a Validate<X>Database call and SDL_ShowSimpleMessageBox stands on a line
\* at most 20 lines before or after some such call (0 to 20 on both sides).
C26_DialogWithin20 ==
    (v_pc = "done" /\ v_rule = "check_startup_validation") =>
        (v_result.pass <=> \E d \in (0 - 20)..20 : DialogOffset(d))

\* what the window is: 20 lines before the call, 19 after it
C26_Window20Before19After ==
    (v_pc = "done" /\ v_rule = "check_startup_validation") =>
        (v_result.pass <=> \E d \in (0 - 20)..19 : DialogOffset(d))

\* the TakeDamage() call sites of the file
TakeDamageSites(ls) == { n \in 1..Len(ls) : ls[n] = <<"D">> }

\* an ApplyPlayerDamageModifiers() call stands in the 10 lines before line n
PrecededByModifiers(ls, n) ==
    \E k \in 1..Len(ls) : k < n /\ n - k <= 10 /\ ls[k] = <<"A">>

\* C27: every TakeDamage() call site not preceded by an
\* ApplyPlayerDamageModifiers() call within the 10 lines before it is
\* reported as a violation and makes FF-013 fail; the name standing only
\* after the call, or only in a comment, does not satisfy the check.
C27_TakeDamagePreceded ==
    (v_pc = "done" /\ v_rule = "verify_take_damage_uses_modifiers") =>
        \A n \in TakeDamageSites(damage_lines(v_input.c_file)) :
            ~PrecededByModifiers(damage_lines(v_input.c_file), n) =>
                n \in v_result.violations /\ ~v_result.pass

\* the name after the call does not satisfy the check
C27_NameAfterCall ==
    (v_pc = "done" /\ v_rule = "verify_take_damage_uses_modifiers") =>
        \A n \in TakeDamageSites(damage_lines(v_input.c_file)) :
            (\A k \in 1..Len(damage_lines(v_input.c_file)) : InLine(damage_lines(v_input.c_file)[k], "A") => k > n)
                => ~v_result.pass

\* the name in a comment does not satisfy the check
C27_NameInComment ==
    (v_pc = "done" /\ v_rule = "verify_take_damage_uses_modifiers") =>
        \A n \in TakeDamageSites(damage_lines(v_input.c_file)) :
            (\A k \in 1..Len(damage_lines(v_input.c_file)) :
                InLine(damage_lines(v_input.c_file)[k], "A") => damage_lines(v_input.c_file)[k] = <<"//", "A">>)
                => ~v_result.pass

\* a call site with the name nowhere in the 10 lines before, its own line
\* and the 2 lines after is reported
C27_NameNowhereNear ==
    (v_pc = "done" /\ v_rule = "verify_take_damage_uses_modifiers") =>
        \A n \in TakeDamageSites(damage_lines(v_input.c_file)) :
            (\A k \in 1..Len(damage_lines(v_input.c_file)) :
                InLine(damage_lines(v_input.c_file)[k], "A") => (k < n - 10 \/ k > n + 2))
                => n \in v_result.violations /\ ~v_result.pass

\* the Create*() functions of the project the rule is to hold for
CheckedCreates ==
    { c \in CreateNames : v_input.project[c].created /\ c \notin known_exceptions }

\* the project declares a Destroy*() for c, and every declaration of it
\* takes a double pointer
HasDoublePointerDestroy(c) ==
    /\ v_input.project[c].destroy # <<>>
    /\ \A k \in 1..Len(v_input.project[c].destroy) : v_input.project[c].destroy[k] = "double"

\* C28: FF-015 passes only if every Create*() that returns a pointer has a
\* matching Destroy*() with a double-pointer signature - a Create*() with no
\* Destroy*() at all, or with only a single-pointer one, makes the rule fail
\* (the two known exceptions apart).
C28_CreateHasDoubleDestroy ==
    (v_pc = "done" /\ v_rule = "verify_double_pointer_destructors" /\ v_result.pass) =>
        \A c \in CheckedCreates : HasDoublePointerDestroy(c)

\* a Create*() whose only Destroy*() takes a single pointer fails the rule
C28_SingleOnlyFails ==
    (v_pc = "done" /\ v_rule = "verify_double_pointer_destructors"
       /\ \E c \in CheckedCreates : v_input.project[c].destroy = <<"single">>) =>
        ~v_result.pass

\* a Create*() with no Destroy*() at all fails the rule
C28_NoDestroyFails ==
    (v_pc = "done" /\ v_rule = "verify_double_pointer_destructors"
       /\ \E c \in CheckedCreates : v_input.project[c].destroy = <<>>) =>
        ~v_result.pass

=============================================================================
